---- MODULE Spec2Model ----
(***************************************************************************)
(* Verification model of the OPENTECHBat/AI browser client:                *)
(*   - ReportVisualization._aggregateValues  (the Aggregator)              *)
(*   - ReportVisualization.getChartData      (the Chart Data Builder)      *)
(*                                                                         *)
(* JavaScript values are modelled as records [t, n, s]: t is the typeof    *)
(* tag, n the number (integers) and s the string.  Strings are TLA+        *)
(* strings and every conversion (String(), parseFloat, split, the ISO date *)
(* test, the default sort order, Object.keys order) is computed character  *)
(* by character.  Payloads come from JSON (fetch(...).json()), so numbers  *)
(* are finite and NaN never appears as an input value.                     *)
(***************************************************************************)
EXTENDS Integers, Sequences, FiniteSets

VARIABLES
    aggRecords,   \* _aggregateValues: the records argument
    aggKind,      \* _aggregateValues: the aggregationType argument
    aggOut,       \* _aggregateValues: the value returned (NotRun before the call)
    report,       \* ReportVisualization.props.report
    chartOut,     \* getChartData: the value returned or the exception raised
    dialog,       \* ReportDialog: its props, its state, what it handed to its caller
    page,         \* SearchPage: its state and its requests in flight
    view          \* ReportVisualization: its state, its chart, the instances alive

vars == <<aggRecords, aggKind, aggOut, report, chartOut, dialog, page, view>>

(***************************************************************************)
(* Bounds of the checked input space.                                      *)
(***************************************************************************)
MaxAggRecs == 3
MaxChartRecs == 3    \* records of a chart-definition payload
MaxModels == 2       \* model results of a multi-model payload
MaxDateRecs == 3     \* records of the dated model of a multi-model payload
MaxLoads == 3        \* get_favorites (and get_reports) requests of one page
MaxRenders == 3      \* chart instances one visualization creates

(***************************************************************************)
(* JavaScript values.                                                      *)
(***************************************************************************)
Num(i) == [t |-> "number", n |-> i, s |-> ""]
Str(x) == [t |-> "string", n |-> 0, s |-> x]
Null == [t |-> "null", n |-> 0, s |-> ""]
Undefined == [t |-> "undefined", n |-> 0, s |-> ""]
\* An array value: n is its length, s is String(value[0]) (the only element the
\* code ever reads).
Arr(len, first) == [t |-> "array", n |-> len, s |-> first]

\* A number the code computes: a reduced fraction (average divides), or NaN.
RECURSIVE Gcd(_, _)
Gcd(a, b) == IF b = 0 THEN a ELSE Gcd(b, a % b)

Abs(i) == IF i < 0 THEN -i ELSE i

Rat(p, q) ==
    LET g == Gcd(Abs(p), q)
    IN  [nan |-> FALSE, num |-> p \div g, den |-> q \div g]

Int2Rat(i) == [nan |-> FALSE, num |-> i, den |-> 1]
NaN == [nan |-> TRUE, num |-> 0, den |-> 1]
Zero == Int2Rat(0)

(***************************************************************************)
(* String(), parseFloat.                                                   *)
(***************************************************************************)
Digits == "0123456789"

CharAt(str, i) == SubSeq(str, i, i)

IsDigit(c) == \E i \in 1..10 : CharAt(Digits, i) = c

DigitVal(c) == (CHOOSE i \in 1..10 : CharAt(Digits, i) = c) - 1

RECURSIVE NatToString(_)
NatToString(i) ==
    IF i < 10 THEN CharAt(Digits, i + 1)
    ELSE NatToString(i \div 10) \o CharAt(Digits, (i % 10) + 1)

\* Number.prototype.toString for the integers of the model.
NumberToString(i) == IF i < 0 THEN "-" \o NatToString(-i) ELSE NatToString(i)

\* String(value)
JsString(v) ==
    CASE v.t = "number"    -> NumberToString(v.n)
      [] v.t = "string"    -> v.s
      [] v.t = "null"      -> "null"
      [] v.t = "undefined" -> "undefined"
      [] v.t = "array"     -> IF v.n = 0 THEN "" ELSE v.s

\* Index of the first character at or after i that is not a space.
RECURSIVE SkipSpaces(_, _)
SkipSpaces(str, i) ==
    IF i <= Len(str) /\ CharAt(str, i) = " " THEN SkipSpaces(str, i + 1) ELSE i

\* Value of the run of digits starting at i, given the value acc read so far.
RECURSIVE ReadDigits(_, _, _)
ReadDigits(str, i, acc) ==
    IF i <= Len(str) /\ IsDigit(CharAt(str, i))
    THEN ReadDigits(str, i + 1, 10 * acc + DigitVal(CharAt(str, i)))
    ELSE acc

\* parseFloat(string): leading blanks, an optional sign, the longest run of
\* digits; NaN when no digit follows.  (The strings of the model hold no "."
\* and no exponent.)
ParseFloatStr(str) ==
    LET i == SkipSpaces(str, 1)
        signed == i <= Len(str) /\ CharAt(str, i) \in {"-", "+"}
        j == IF signed THEN i + 1 ELSE i
    IN  IF j <= Len(str) /\ IsDigit(CharAt(str, j))
        THEN Int2Rat((IF signed /\ CharAt(str, i) = "-" THEN -1 ELSE 1)
                     * ReadDigits(str, j, 0))
        ELSE NaN

\* parseFloat(value): the argument is converted with String() first.
ParseFloat(v) == ParseFloatStr(JsString(v))

\* isNaN(parseFloat(value)) is false: the value parses as a number.
Parses(v) ==
    CASE v.t = "number" -> TRUE
      [] v.t = "array" /\ v.n > 0 -> ~ParseFloatStr(v.s).nan
      [] OTHER -> ~ParseFloat(v).nan

\* x || 0 for a number x: NaN and 0 are falsy.
OrZero(x) == IF x.nan \/ x.num = 0 THEN Zero ELSE x

(***************************************************************************)
(* Records: a JavaScript object is the sequence of its own entries, in     *)
(* insertion order.                                                        *)
(***************************************************************************)
Entry(key, val) == [k |-> key, v |-> val]

HasKey(rec, key) == \E i \in 1..Len(rec) : rec[i].k = key

\* record[field]
Get(rec, key) ==
    IF HasKey(rec, key)
    THEN rec[CHOOSE i \in 1..Len(rec) : rec[i].k = key].v
    ELSE Undefined

\* A record set argument: an array of records, or null / undefined.
RecArray(items) == [t |-> "array", items |-> items]
NoRecords(tag) == [t |-> tag, items |-> <<>>]

(***************************************************************************)
(* ReportVisualization._aggregateValues                                    *)
(***************************************************************************)
\* The numeric coercion of one field value (part_001 lines 769-774, 785-790).
ToNumberNoDefault(v) ==
    IF v.t = "number" THEN Int2Rat(v.n)
    ELSE IF v.t = "array" /\ v.n > 0 THEN ParseFloatStr(v.s)
    ELSE ParseFloat(v)

ToNumber(v) ==
    IF v.t = "number" THEN Int2Rat(v.n)
    ELSE IF v.t = "array" /\ v.n > 0 THEN OrZero(ParseFloatStr(v.s))
    ELSE OrZero(ParseFloat(v))

\* records.map(record => coerce(record[field])).filter(v => !isNaN(v))
RECURSIVE NumericValues(_, _)
NumericValues(items, field) ==
    IF items = <<>> THEN <<>>
    ELSE LET x == ToNumber(Get(Head(items), field))
             rest == NumericValues(Tail(items), field)
         IN  IF x.nan THEN rest ELSE <<x>> \o rest

\* The values are integers here: the coercion yields integers only.
RECURSIVE SumOf(_)
SumOf(xs) == IF xs = <<>> THEN 0 ELSE Head(xs).num + SumOf(Tail(xs))

RECURSIVE MinOf(_)
MinOf(xs) ==
    IF Len(xs) = 1 THEN Head(xs).num
    ELSE LET m == MinOf(Tail(xs)) IN IF Head(xs).num < m THEN Head(xs).num ELSE m

RECURSIVE MaxOf(_)
MaxOf(xs) ==
    IF Len(xs) = 1 THEN Head(xs).num
    ELSE LET m == MaxOf(Tail(xs)) IN IF Head(xs).num > m THEN Head(xs).num ELSE m

\* A plausible slip: count only the records whose field holds a value.
RECURSIVE CountDefined(_, _)
CountDefined(items, field) ==
    IF items = <<>> THEN 0
    ELSE (IF Get(Head(items), field).t \in {"null", "undefined"} THEN 0 ELSE 1)
         + CountDefined(Tail(items), field)

AggregateCountDefined(items, field) == Int2Rat(CountDefined(items, field))

\* aggregationType === 'count': records.length
AggregateCount(items, field) == Int2Rat(Len(items))

AggregateReduce(numericValues, items, aggregationType) ==
    CASE aggregationType = "sum"     -> Int2Rat(SumOf(numericValues))
      [] aggregationType = "average" -> Rat(SumOf(numericValues), Len(numericValues))
      [] aggregationType = "min"     -> Int2Rat(MinOf(numericValues))
      [] aggregationType = "max"     -> Int2Rat(MaxOf(numericValues))
      [] OTHER                       -> Int2Rat(Len(items))

\* !records || !records.length
AggregateEmpty(records) == records.t # "array" \/ Len(records.items) = 0

\* _aggregateValues past its first guard.
AggregateNonEmpty(records, field, aggregationType) ==
    IF aggregationType = "none" THEN ToNumber(Get(records.items[1], field))
    ELSE IF aggregationType = "count" THEN AggregateCount(records.items, field)
    ELSE LET numericValues == NumericValues(records.items, field)
         IN  IF Len(numericValues) = 0 THEN Zero
             ELSE AggregateReduce(numericValues, records.items, aggregationType)

\* A plausible slip: no guard in front of the average, which then divides 0 by 0.
AggregateValuesUnguardedAverage(records, field, aggregationType) ==
    IF AggregateEmpty(records)
    THEN (IF aggregationType = "average" THEN NaN ELSE Zero)
    ELSE AggregateNonEmpty(records, field, aggregationType)

AggregateValues(records, field, aggregationType) ==
    IF AggregateEmpty(records) THEN Zero
    ELSE AggregateNonEmpty(records, field, aggregationType)

(***************************************************************************)
(* The Aggregator on its own: every record set of the bounded input space  *)
(* with every aggregation kind.                                            *)
(***************************************************************************)
AggField == "amount"

AggregationKinds == {"none", "count", "sum", "average", "min", "max"}

\* "median" stands for an aggregation kind the code does not know.
AggKindInputs == AggregationKinds \cup {"median"}

AggValueInputs ==
    {Num(4), Num(-3), Str("7"), Str("abc"), Null, Arr(2, "6"), Arr(0, "")}

\* A record holding the field, or not holding it at all.
AggRecordInputs == {<<>>} \cup {<<Entry(AggField, v)>> : v \in AggValueInputs}

RECURSIVE SeqsUpTo(_, _)
SeqsUpTo(S, len) ==
    IF len = 0 THEN {<<>>}
    ELSE LET shorter == SeqsUpTo(S, len - 1)
         IN  shorter \cup {<<x>> \o q : x \in S, q \in {r \in shorter : Len(r) = len - 1}}

AggRecordSetInputs ==
    {RecArray(items) : items \in SeqsUpTo(AggRecordInputs, MaxAggRecs)}
        \cup {NoRecords("null"), NoRecords("undefined")}

AggIdle == [status |-> "idle", value |-> Zero]
NoReport == [visualization_type |-> "none"]
ChartIdle == [status |-> "idle"]
\* No report dialog is open; no search page is mounted.
NoDialog == [open |-> FALSE, phase |-> "none"]
NoPage == [mounted |-> FALSE]
NoView == [phase |-> "none"]
UiUnused == dialog = NoDialog /\ page = NoPage /\ view = NoView

InitAgg ==
    /\ UiUnused
    /\ aggRecords \in AggRecordSetInputs
    /\ aggKind \in AggKindInputs
    /\ aggOut = AggIdle
    /\ report = NoReport
    /\ chartOut = ChartIdle

\* One call of _aggregateValues(records, field, aggregationType).
Aggregate ==
    /\ aggOut.status = "idle"
    /\ aggOut' = [status |-> "return",
                  value |-> AggregateValues(aggRecords, AggField, aggKind)]
    /\ UNCHANGED <<aggRecords, aggKind, report, chartOut, dialog, page, view>>

NextAgg == Aggregate

SpecAgg == InitAgg /\ [][NextAgg]_vars

(***************************************************************************)
(* What the aggregation claims speak of: the values that parse.            *)
(***************************************************************************)
\* The numbers the field values parse to, unparseable values left out.
RECURSIVE ParsedValues(_, _)
ParsedValues(items, field) ==
    IF items = <<>> THEN <<>>
    ELSE LET v == Get(Head(items), field)
             rest == ParsedValues(Tail(items), field)
         IN  IF Parses(v) THEN <<ToNumberNoDefault(v)>> \o rest ELSE rest

AggReturned == aggOut.status = "return"
AggParsed == ParsedValues(aggRecords.items, AggField)
AggNonEmpty == aggRecords.t = "array" /\ Len(aggRecords.items) > 0

\* C1: over a non-empty record set the average is the sum of the values that
\* parse divided by the number of values that parse, and 0 when none parses.
C1_AverageOverParseable ==
    (AggReturned /\ AggNonEmpty /\ aggKind = "average") =>
        aggOut.value = (IF Len(AggParsed) = 0 THEN Zero
                        ELSE Rat(SumOf(AggParsed), Len(AggParsed)))

\* C2: over a non-empty record set min (max) is the minimum (maximum) of exactly
\* the values that parse, and 0 only when none parses.
C2_MinMaxOverParseable ==
    (AggReturned /\ AggNonEmpty /\ aggKind \in {"min", "max"}) =>
        aggOut.value = (IF Len(AggParsed) = 0 THEN Zero
                        ELSE IF aggKind = "min" THEN Int2Rat(MinOf(AggParsed))
                        ELSE Int2Rat(MaxOf(AggParsed)))

\* C3: with kind count the result is records.length, whatever the field holds.
C3_CountIsLength ==
    (AggReturned /\ aggRecords.t = "array" /\ aggKind = "count") =>
        aggOut.value = Int2Rat(Len(aggRecords.items))

\* C3 witness: a counted record set holding a non-numeric and an absent value.
C3_Witness ==
    /\ AggReturned /\ aggKind = "count"
    /\ aggRecords = RecArray(<<<<Entry(AggField, Str("abc"))>>, <<>>,
                               <<Entry(AggField, Num(4))>>>>)
    /\ aggOut.value = Int2Rat(3)

\* C4: an empty or missing record set aggregates to 0 under every kind, known or not.
C4_EmptyIsZero ==
    (AggReturned /\ ~AggNonEmpty) => aggOut.value = Zero

\* C4 witness: the average of an empty array, and of a missing record set, is 0.
C4_Witness ==
    /\ AggReturned /\ aggKind = "average"
    /\ aggRecords = RecArray(<<>>)
    /\ aggOut.value = Zero

(***************************************************************************)
(* Strings, as the Chart Data Builder uses them.                           *)
(***************************************************************************)
\* The characters of the model's strings in UTF-16 code unit order.
CodeUnitOrder ==
    " ,-0123456789:ABCDEFGHIJKLMNOPQRSTUVWXYZ_abcdefghijklmnopqrstuvwxyz"

LowerCase == "abcdefghijklmnopqrstuvwxyz"
UpperCase == "ABCDEFGHIJKLMNOPQRSTUVWXYZ"

CodeUnit(c) == CHOOSE i \in 1..Len(CodeUnitOrder) : CharAt(CodeUnitOrder, i) = c

\* a < b as the default sort of Array.prototype.sort compares two strings.
RECURSIVE StrLess(_, _)
StrLess(a, b) ==
    IF Len(b) = 0 THEN FALSE
    ELSE IF Len(a) = 0 THEN TRUE
    ELSE IF Head(a) = Head(b) THEN StrLess(Tail(a), Tail(b))
    ELSE CodeUnit(Head(a)) < CodeUnit(Head(b))

\* str.split(sep)[0] for a one-character separator.
RECURSIVE SplitFirst(_, _)
SplitFirst(str, sep) ==
    IF Len(str) = 0 \/ Head(str) = sep THEN ""
    ELSE Head(str) \o SplitFirst(Tail(str), sep)

StartsWith(str, prefix) ==
    Len(str) >= Len(prefix) /\ SubSeq(str, 1, Len(prefix)) = prefix

\* str.endsWith(suffix)
EndsWith(str, suffix) ==
    Len(str) >= Len(suffix)
        /\ SubSeq(str, Len(str) - Len(suffix) + 1, Len(str)) = suffix

\* str.includes(sub)
Includes(str, sub) ==
    \E i \in 1..(Len(str) + 1) :
        i + Len(sub) - 1 <= Len(str) /\ SubSeq(str, i, i + Len(sub) - 1) = sub

\* /^\d{4}-\d{2}-\d{2}/.test(str)
IsoDatePrefix(str) ==
    /\ Len(str) >= 10
    /\ \A i \in {1, 2, 3, 4, 6, 7, 9, 10} : IsDigit(CharAt(str, i))
    /\ CharAt(str, 5) = "-"
    /\ CharAt(str, 8) = "-"

\* \w of a regular expression
IsWordChar(c) ==
    IsDigit(c) \/ c = "_" \/ Includes(LowerCase, c) \/ Includes(UpperCase, c)

ToUpper(c) ==
    IF Includes(LowerCase, c)
    THEN CharAt(UpperCase, CHOOSE i \in 1..26 : CharAt(LowerCase, i) = c)
    ELSE c

\* str.replace(/_/g, ' ')
RECURSIVE UnderscoresToSpaces(_)
UnderscoresToSpaces(str) ==
    IF Len(str) = 0 THEN ""
    ELSE (IF Head(str) = "_" THEN " " ELSE Head(str)) \o UnderscoresToSpaces(Tail(str))

\* str.replace(/\b\w/g, l => l.toUpperCase()); atBoundary: the previous
\* character is no word character.
RECURSIVE CapitalizeWords(_, _)
CapitalizeWords(str, atBoundary) ==
    IF Len(str) = 0 THEN ""
    ELSE (IF atBoundary /\ IsWordChar(Head(str)) THEN ToUpper(Head(str)) ELSE Head(str))
         \o CapitalizeWords(Tail(str), ~IsWordChar(Head(str)))

\* measureField.replace(/_/g, ' ').replace(/\b\w/g, l => l.toUpperCase())
FieldLabel(measureField) == CapitalizeWords(UnderscoresToSpaces(measureField), TRUE)

\* The whole string is an optionally signed decimal integer.
IsIntegerString(str) ==
    LET j == IF Len(str) > 0 /\ Head(str) \in {"-", "+"} THEN 2 ELSE 1
    IN  j <= Len(str) /\ \A i \in j..Len(str) : IsDigit(CharAt(str, i))

\* The key is an array index ("0", "7", "10"; not "07", not "-1"): Object.keys
\* lists such keys first, in ascending numeric order.
IsArrayIndex(key) ==
    /\ Len(key) > 0
    /\ \A i \in 1..Len(key) : IsDigit(CharAt(key, i))
    /\ (Len(key) = 1 \/ Head(key) # "0")
    /\ Len(key) <= 9

(***************************************************************************)
(* Truthiness, ==, property keys.                                          *)
(***************************************************************************)
\* if (value)
Truthy(v) ==
    CASE v.t = "number" -> v.n # 0
      [] v.t = "string" -> v.s # ""
      [] v.t \in {"null", "undefined"} -> FALSE
      [] OTHER -> TRUE

\* a == b (loose equality) between numbers, strings, null and undefined.  A
\* string compared with a number is converted with Number(): the whole trimmed
\* string must be numeric, and "" converts to 0.
RECURSIVE TrimEnd(_)
TrimEnd(str) ==
    IF Len(str) > 0 /\ CharAt(str, Len(str)) = " "
    THEN TrimEnd(SubSeq(str, 1, Len(str) - 1))
    ELSE str

StringEqualsNumber(str, i) ==
    LET start == SkipSpaces(str, 1)
        body == TrimEnd(SubSeq(str, start, Len(str)))
    IN  IF body = "" THEN i = 0
        ELSE IsIntegerString(body) /\ ParseFloatStr(body).num = i

LooseEq(a, b) ==
    CASE a.t = b.t -> a = b
      [] a.t \in {"null", "undefined"} /\ b.t \in {"null", "undefined"} -> TRUE
      [] a.t = "number" /\ b.t = "string" -> StringEqualsNumber(b.s, a.n)
      [] a.t = "string" /\ b.t = "number" -> StringEqualsNumber(a.s, b.n)
      [] OTHER -> FALSE

\* record[name] where name is a value: the property key is String(name).
GetField(rec, name) == Get(rec, JsString(name))

\* [...new Set(values)]: the distinct values (SameValueZero) in first-occurrence order.
RECURSIVE Distinct(_)
Distinct(values) ==
    IF values = <<>> THEN <<>>
    ELSE LET front == Distinct(SubSeq(values, 1, Len(values) - 1))
             last == values[Len(values)]
         IN  IF \E i \in 1..Len(front) : front[i] = last THEN front
             ELSE Append(front, last)

\* records.map(r => r[field])
RECURSIVE MapField(_, _)
MapField(items, name) ==
    IF items = <<>> THEN <<>>
    ELSE <<GetField(Head(items), name)>> \o MapField(Tail(items), name)

\* Names every object inherits from Object.prototype: obj[name] is a function
\* (truthy) although obj has no such key of its own.
InheritedNames ==
    {"constructor", "toString", "valueOf", "hasOwnProperty", "isPrototypeOf",
     "propertyIsEnumerable", "toLocaleString"}

\* Object.keys(obj) of an object whose own keys were inserted in the order
\* `inserted`: array-index keys ascending, then the other keys as inserted.
RECURSIVE InsertIndexKey(_, _)
InsertIndexKey(sorted, key) ==
    IF sorted = <<>> THEN <<key>>
    ELSE IF ParseFloatStr(key).num < ParseFloatStr(Head(sorted)).num
         THEN <<key>> \o sorted
         ELSE <<Head(sorted)>> \o InsertIndexKey(Tail(sorted), key)

RECURSIVE IndexKeysAscending(_)
IndexKeysAscending(inserted) ==
    IF inserted = <<>> THEN <<>>
    ELSE LET rest == IndexKeysAscending(Tail(inserted))
         IN  IF IsArrayIndex(Head(inserted)) THEN InsertIndexKey(rest, Head(inserted))
             ELSE rest

IsNoArrayIndex(key) == ~IsArrayIndex(key)

\* A plausible slip: taking Object.keys to list the keys as inserted.
ObjectKeysAsInserted(inserted) == inserted

ObjectKeys(inserted) ==
    IndexKeysAscending(inserted) \o SelectSeq(inserted, IsNoArrayIndex)

\* keys.sort(): insertion sort under the default (code unit) order.
RECURSIVE InsertSorted(_, _)
InsertSorted(sorted, key) ==
    IF sorted = <<>> THEN <<key>>
    ELSE IF StrLess(key, Head(sorted)) THEN <<key>> \o sorted
    ELSE <<Head(sorted)>> \o InsertSorted(Tail(sorted), key)

RECURSIVE SortStrings(_)
SortStrings(keys) ==
    IF keys = <<>> THEN <<>>
    ELSE InsertSorted(SortStrings(SubSeq(keys, 1, Len(keys) - 1)), keys[Len(keys)])

(***************************************************************************)
(* The report payload.  Every object has all its keys; an absent key holds *)
(* has = FALSE, t = "undefined" or FALSE.  The colour, border, fill and    *)
(* tension keys of a dataset are presentation constants that no rule reads *)
(* and are left out: a dataset is its label and its data.                  *)
(***************************************************************************)
\* A data point: a number (fraction or NaN) or, where the code copies a field
\* value unconverted, that value.
NumCell(x) == [t |-> "number", nan |-> x.nan, num |-> x.num, den |-> x.den, s |-> ""]

ValueCell(v) ==
    IF v.t = "number" THEN NumCell(Int2Rat(v.n))
    ELSE [t |-> v.t, nan |-> FALSE, num |-> v.n, den |-> 1, s |-> v.s]

IntCell(i) == NumCell(Int2Rat(i))

Dataset(label, data) == [label |-> label, data |-> data]

Present(items) == [has |-> TRUE, items |-> items]
Absent == [has |-> FALSE, items |-> <<>>]

NoChartDefinition ==
    [has |-> FALSE, dimensionField |-> Undefined, measureField |-> Undefined,
     aggregationType |-> Undefined, seriesField |-> Undefined]

ChartDefinition(dimensionField, measureField, aggregationType, seriesField) ==
    [has |-> TRUE, dimensionField |-> dimensionField, measureField |-> measureField,
     aggregationType |-> aggregationType, seriesField |-> seriesField]

NoDateAggregation == [has |-> FALSE, hasDates |-> FALSE, dates |-> <<>>, counts |-> <<>>]

ModelResult(model, model_label, records, dateAggregation) ==
    [model |-> model, model_label |-> model_label, records |-> records,
     dateAggregation |-> dateAggregation]

\* results: an array of model results, another object, or absent.
Results(items) == [t |-> "array", items |-> items]
NoResults == [t |-> "undefined", items |-> <<>>]
ResultsObject == [t |-> "object", items |-> <<>>]

\* An object with none of the keys the builder looks for, such as {foo: "bar"}.
EmptyShape ==
    [labels |-> Absent, datasets |-> Absent, chartDefinition |-> NoChartDefinition,
     multi_model |-> FALSE, results |-> NoResults, records |-> NoRecords("undefined"),
     aggregation |-> FALSE, dimension |-> Undefined, measure |-> Undefined,
     field_descriptions |-> <<>>]

Nested(shape) == [has |-> TRUE, shape |-> shape]
NotNested == [has |-> FALSE, shape |-> EmptyShape]

\* report.data: absent, a string that is no JSON, or an object (given directly
\* or as its JSON text) with its own keys and possibly graphData / data.
ReportData(own, graphData, data) ==
    [raw |-> "object", own |-> own, graphData |-> graphData, data |-> data]
NoReportData(raw) ==
    [raw |-> raw, own |-> EmptyShape, graphData |-> NotNested, data |-> NotNested]

EmptyConfig ==
    [stacked |-> FALSE, cumulated |-> FALSE, dimensionField |-> Undefined,
     measureField |-> Undefined, seriesField |-> Undefined]

\* report.config: an object (or its JSON text), or a string that is no JSON.
ReportConfig(value) == [raw |-> "object", value |-> value]
InvalidConfig == [raw |-> "invalid", value |-> EmptyConfig]

Report(visualization_type, config, data) ==
    [visualization_type |-> visualization_type, config |-> config, data |-> data]

(***************************************************************************)
(* ReportVisualization.getSampleData                                       *)
(***************************************************************************)
SampleLabels == <<"Sample A", "Sample B", "Sample C", "Sample D", "Sample E">>
SampleValues == <<IntCell(30), IntCell(20), IntCell(25), IntCell(15), IntCell(10)>>

ChartData(labels, datasets) ==
    [EmptyShape EXCEPT !.labels = Present(labels), !.datasets = Present(datasets)]

GetSampleData(visualizationType) ==
    ChartData(SampleLabels,
              <<Dataset(IF visualizationType = "pie" THEN "Sample Data"
                        ELSE "Sample Dataset", SampleValues)>>)

(***************************************************************************)
(* ReportVisualization.getChartData                                        *)
(***************************************************************************)
\* What one rule of the builder does: return a value, raise an exception, or
\* leave the decision to the rules after it.
Return(value) == [kind |-> "return", value |-> value]
Throw == [kind |-> "throw", value |-> EmptyShape]
FallThrough == [kind |-> "next", value |-> EmptyShape]

\* config, after the try/catch around JSON.parse (lines 127-134).
ParsedConfig(rep) == IF rep.config.raw = "object" THEN rep.config.value ELSE EmptyConfig

\* A plausible slip: looking at the payload itself before its nested forms.
SearchResultsOwnFirst(reportData) == reportData.own

\* reportData.graphData || reportData.data || reportData (lines 154-156)
SearchResults(reportData) ==
    IF reportData.graphData.has THEN reportData.graphData.shape
    ELSE IF reportData.data.has THEN reportData.data.shape
    ELSE reportData.own

HasRecords(recs) == recs.t = "array" /\ Len(recs.items) > 0

\* The records to visualize (lines 178-192, 285-299).  results.find is no
\* function when results is no array.
ActiveRecords(searchResults) ==
    IF searchResults.multi_model /\ searchResults.results.t # "undefined"
    THEN IF searchResults.results.t # "array" THEN [threw |-> TRUE, items |-> <<>>]
         ELSE LET models == searchResults.results.items
                  withRecords == {i \in 1..Len(models) : HasRecords(models[i].records)}
              IN  IF withRecords = {} THEN [threw |-> FALSE, items |-> <<>>]
                  ELSE [threw |-> FALSE,
                        items |-> models[CHOOSE i \in withRecords :
                                            \A j \in withRecords : i <= j].records.items]
    ELSE IF searchResults.records.t = "array"
         THEN [threw |-> FALSE, items |-> searchResults.records.items]
         ELSE [threw |-> FALSE, items |-> <<>>]

\* value !== undefined && value !== null ? String(value) : ''
DimensionLabel(v) == IF v.t \in {"undefined", "null"} THEN "" ELSE JsString(v)

\* value !== undefined ? String(value) : ''
DefinedLabel(v) == IF v.t = "undefined" THEN "" ELSE JsString(v)

RECURSIVE MapDimensionLabel(_)
MapDimensionLabel(values) ==
    IF values = <<>> THEN <<>>
    ELSE <<DimensionLabel(Head(values))>> \o MapDimensionLabel(Tail(values))

\* records.filter(r => r[dimensionField] == dimValue && r[seriesField] == seriesValue)
MatchingRecords(items, dimensionField, dimValue, seriesField, seriesValue) ==
    LET Matches(r) == /\ LooseEq(GetField(r, dimensionField), dimValue)
                      /\ LooseEq(GetField(r, seriesField), seriesValue)
    IN  SelectSeq(items, Matches)

\* A plausible slip: matching the series value only.
MatchingRecordsSeriesOnly(items, dimensionField, dimValue, seriesField, seriesValue) ==
    LET Matches(r) == LooseEq(GetField(r, seriesField), seriesValue)
    IN  SelectSeq(items, Matches)

\* seriesValue ? String(seriesValue) : `Series ${index + 1}`
SeriesLabel(seriesValue, index) ==
    IF Truthy(seriesValue) THEN JsString(seriesValue)
    ELSE "Series " \o NumberToString(index + 1)

\* The stacked-bar datasets of a chart definition (lines 201-233): one per
\* distinct series value, one point per distinct dimension value, the
\* aggregate of the matching records.
StackedChart(items, dimensionField, seriesField, measureField, aggregationType) ==
    LET dimensionValues == Distinct(MapField(items, dimensionField))
        seriesValues == Distinct(MapField(items, seriesField))
        Point(d, sv) ==
            LET matching == MatchingRecords(items, dimensionField, dimensionValues[d],
                                            seriesField, seriesValues[sv])
            IN  IF Len(matching) > 0
                THEN NumCell(AggregateValues(RecArray(matching), JsString(measureField),
                                             aggregationType))
                ELSE IntCell(0)
    IN  ChartData(MapDimensionLabel(dimensionValues),
                  [sv \in 1..Len(seriesValues) |->
                      Dataset(SeriesLabel(seriesValues[sv], sv - 1),
                              [d \in 1..Len(dimensionValues) |-> Point(d, sv)])])

\* groupedRecords after records.forEach (lines 240-251): the own keys in
\* insertion order with their groups.  groupedRecords[key] of an inherited name
\* is a function: truthy, so no array is created, and .push is no function.
RECURSIVE GroupRecords(_, _, _)
GroupRecords(acc, items, dimensionField) ==
    IF items = <<>> \/ acc.threw THEN acc
    ELSE LET key == DimensionLabel(GetField(Head(items), dimensionField))
             own == {i \in 1..Len(acc.keys) : acc.keys[i] = key}
         IN  IF own # {}
             THEN GroupRecords([acc EXCEPT !.groups[CHOOSE i \in own : TRUE] =
                                               Append(@, Head(items))],
                               Tail(items), dimensionField)
             ELSE IF key \in InheritedNames THEN [acc EXCEPT !.threw = TRUE]
             ELSE GroupRecords([acc EXCEPT !.keys = Append(@, key),
                                           !.groups = Append(@, <<Head(items)>>)],
                               Tail(items), dimensionField)

NoGroups == [threw |-> FALSE, keys |-> <<>>, groups |-> <<>>]

GroupOf(grouped, label) ==
    grouped.groups[CHOOSE i \in 1..Len(grouped.keys) : grouped.keys[i] = label]

\* The regular chart of a chart definition (lines 236-275).
RegularChart(items, dimensionField, measureField, aggregationType) ==
    LET grouped == GroupRecords(NoGroups, items, dimensionField)
        labels == ObjectKeys(grouped.keys)
    IN  IF grouped.threw THEN Throw
        ELSE IF measureField.t # "string" THEN Throw   \* measureField.replace
        ELSE Return(ChartData(labels,
                 <<Dataset(FieldLabel(measureField.s),
                           [i \in 1..Len(labels) |->
                               NumCell(AggregateValues(RecArray(GroupOf(grouped, labels[i])),
                                                       JsString(measureField),
                                                       aggregationType))])>>))

\* chartDefinition.aggregationType || 'count'
AggregationTypeOf(chartDefinition) ==
    IF Truthy(chartDefinition.aggregationType) THEN chartDefinition.aggregationType.s
    ELSE "count"

IsStacked(visualizationType, config, seriesField) ==
    visualizationType = "bar" /\ config.stacked /\ Truthy(seriesField)

\* PRIORITY 1: the chart definition (lines 166-277).
ChartDefinitionRule(visualizationType, config, searchResults) ==
    LET cd == searchResults.chartDefinition
        active == ActiveRecords(searchResults)
    IN  IF ~cd.has THEN FallThrough
        ELSE IF active.threw THEN Throw
        ELSE IF ~(Len(active.items) > 0 /\ Truthy(cd.dimensionField)) THEN FallThrough
        ELSE IF IsStacked(visualizationType, config, cd.seriesField)
             THEN Return(StackedChart(active.items, cd.dimensionField, cd.seriesField,
                                      cd.measureField, AggregationTypeOf(cd)))
             ELSE RegularChart(active.items, cd.dimensionField, cd.measureField,
                               AggregationTypeOf(cd))

\* typeof value === 'number' ? value : parseFloat(value) || 0  (lines 331-332)
LegacyNumber(v) == IF v.t = "number" THEN Int2Rat(v.n) ELSE OrZero(ParseFloat(v))

RECURSIVE LegacySum(_, _)
LegacySum(items, measureField) ==
    IF items = <<>> THEN 0
    ELSE LegacyNumber(GetField(Head(items), measureField)).num
         + LegacySum(Tail(items), measureField)

\* The stacked-bar datasets of the config's field selection (lines 311-348):
\* as above, the point being the sum of the matching records.
LegacyStackedChart(items, dimensionField, seriesField, measureField) ==
    LET dimensionValues == Distinct(MapField(items, dimensionField))
        seriesValues == Distinct(MapField(items, seriesField))
        Point(d, sv) ==
            LET matching == MatchingRecords(items, dimensionField, dimensionValues[d],
                                            seriesField, seriesValues[sv])
            IN  IF Len(matching) > 0 THEN IntCell(LegacySum(matching, measureField))
                ELSE IntCell(0)
    IN  ChartData(MapDimensionLabel(dimensionValues),
                  [sv \in 1..Len(seriesValues) |->
                      Dataset(SeriesLabel(seriesValues[sv], sv - 1),
                              [d \in 1..Len(dimensionValues) |-> Point(d, sv)])])

\* PRIORITY 2: the field selection of the config (lines 281-386).
LegacyConfigRule(visualizationType, config, searchResults) ==
    LET active == ActiveRecords(searchResults)
        items == active.items
    IN  IF ~(~searchResults.chartDefinition.has /\ Truthy(config.dimensionField)
              /\ Truthy(config.measureField))
        THEN FallThrough
        ELSE IF active.threw THEN Throw
        ELSE IF Len(items) = 0 THEN FallThrough
        ELSE IF IsStacked(visualizationType, config, config.seriesField)
             THEN Return(LegacyStackedChart(items, config.dimensionField,
                                            config.seriesField, config.measureField))
        ELSE IF config.measureField.t # "string" THEN Throw   \* measureField.replace
        ELSE Return(ChartData(
                 [i \in 1..Len(items) |->
                     DefinedLabel(GetField(items[i], config.dimensionField))],
                 <<Dataset(FieldLabel(config.measureField.s),
                           [i \in 1..Len(items) |->
                               NumCell(ToNumber(GetField(items[i], config.measureField)))])>>))

\* record[measureField] || 0
ValueOrZero(v) == IF Truthy(v) THEN ValueCell(v) ELSE IntCell(0)

\* The aggregation result (lines 389-427).
AggregationRule(visualizationType, searchResults) ==
    LET dimensionField == searchResults.dimension
        measureField == searchResults.measure
        described == GetField(searchResults.field_descriptions, dimensionField)
        items == searchResults.records.items
    IN  IF ~(searchResults.aggregation /\ Truthy(dimensionField) /\ Truthy(measureField)
              /\ HasRecords(searchResults.records))
        THEN FallThrough
        ELSE Return(ChartData(
                 [i \in 1..Len(items) |-> DefinedLabel(GetField(items[i], dimensionField))],
                 <<Dataset(IF Truthy(described) THEN JsString(described)
                           ELSE JsString(measureField),
                           [i \in 1..Len(items) |->
                               ValueOrZero(GetField(items[i], measureField))])>>))

\* !['id', 'has_linked_data'].includes(field) && !field.endsWith('_info')
IsDataField(field) == field \notin {"id", "has_linked_data"} /\ ~EndsWith(field, "_info")

\* The first key of the record, among those anyField or IsDataField admits,
\* whose value starts like an ISO date; "" when there is none (lines 491-505,
\* 686-697).
DateFieldOf(record, anyField) ==
    LET hits == {i \in 1..Len(record) :
                    /\ anyField \/ IsDataField(record[i].k)
                    /\ IsoDatePrefix(JsString(record[i].v))}
    IN  IF hits = {} THEN "" ELSE record[CHOOSE i \in hits : \A j \in hits : i <= j].k

\* A plausible slip: the time of day is kept.
DateBucketWithTime(v) == v

\* The date part of a date value: strings lose their time of day (lines 516-524).
DateBucket(v) ==
    IF v.t \in {"string", "array"}
    THEN Str(SplitFirst(SplitFirst(JsString(v), "T"), " "))
    ELSE v

\* counts[key]++ on an object used as a counter (lines 527-532, 587-592):
\* the own keys in insertion order with their counts.  An inherited name is
\* truthy before it is counted, so it is not set to 0 first and ++ makes it NaN.
CountKey(acc, key) ==
    LET own == {i \in 1..Len(acc.keys) : acc.keys[i] = key}
    IN  IF own # {}
        THEN LET i == CHOOSE j \in own : TRUE
                 cur == acc.counts[i]
             IN  [acc EXCEPT !.counts[i] =
                      IF cur.nan \/ cur.num = 0 THEN Int2Rat(1) ELSE Int2Rat(cur.num + 1)]
        ELSE [keys |-> Append(acc.keys, key),
              counts |-> Append(acc.counts, IF key \in InheritedNames THEN NaN
                                            ELSE Int2Rat(1))]

NoCounts == [keys |-> <<>>, counts |-> <<>>]

CountOf(counted, key) ==
    counted.counts[CHOOSE i \in 1..Len(counted.keys) : counted.keys[i] = key]

\* dateCounts after records.forEach (lines 511-533, 703-725).
RECURSIVE DateCounts(_, _, _)
DateCounts(acc, items, dateField) ==
    IF items = <<>> THEN acc
    ELSE LET dateValue == DateBucket(Get(Head(items), dateField))
         IN  DateCounts(IF Truthy(dateValue) THEN CountKey(acc, JsString(dateValue)) ELSE acc,
                        Tail(items), dateField)

\* labelCounts after records.forEach (lines 583-593).
RECURSIVE LabelCounts(_, _, _)
LabelCounts(acc, items, labelField) ==
    IF items = <<>> THEN acc
    ELSE LET labelValue == Get(Head(items), labelField)
         IN  LabelCounts(IF Truthy(labelValue) THEN CountKey(acc, JsString(labelValue)) ELSE acc,
                         Tail(items), labelField)

CountedChart(labels, counted, datasetLabel) ==
    ChartData(labels,
              <<Dataset(datasetLabel,
                        [i \in 1..Len(labels) |-> NumCell(CountOf(counted, labels[i]))])>>)

\* Object.keys(dateCounts).sort() with the counts of the dates.
DateChart(items, dateField, datasetLabel) ==
    LET counted == DateCounts(NoCounts, items, dateField)
    IN  CountedChart(SortStrings(ObjectKeys(counted.keys)), counted, datasetLabel)

RecordCount(model) == IF model.records.t = "array" THEN Len(model.records.items) ELSE 0

\* A plausible slip: the first model listed is taken as the primary one.
PrimaryModelFirstListed(models) == models[1]

\* [...modelResults].sort((a, b) => countB - countA)[0]: the first of the models
\* with the most records (the sort is stable).
PrimaryModel(models) ==
    models[CHOOSE i \in 1..Len(models) :
              /\ \A j \in 1..Len(models) : RecordCount(models[j]) <= RecordCount(models[i])
              /\ \A j \in 1..(i - 1) : RecordCount(models[j]) < RecordCount(models[i])]

\* model_label || model || ''
ModelName(model) ==
    IF Truthy(model.model_label) THEN JsString(model.model_label)
    ELSE IF Truthy(model.model) THEN JsString(model.model)
    ELSE ""

\* The first data field of the record holding a string; "" when there is none.
LabelFieldOf(record) ==
    LET hits == {i \in 1..Len(record) :
                    IsDataField(record[i].k) /\ record[i].v.t = "string"}
    IN  IF hits = {} THEN "" ELSE record[CHOOSE i \in hits : \A j \in hits : i <= j].k

\* The multi-model result (lines 430-617).
MultiModelRule(visualizationType, searchResults) ==
    IF ~(searchResults.multi_model /\ searchResults.results.t # "undefined")
    THEN FallThrough
    ELSE IF searchResults.results.t # "array" \/ Len(searchResults.results.items) = 0
    THEN Return(GetSampleData(visualizationType))
    ELSE
    LET models == searchResults.results.items
        pre == {i \in 1..Len(models) : models[i].dateAggregation.has}
        preprocessedModel == models[CHOOSE i \in pre : \A j \in pre : i <= j]
        aggregation == preprocessedModel.dateAggregation
        primaryModelResult == PrimaryModel(models)
        records == primaryModelResult.records.items
        dateField == DateFieldOf(records[1], FALSE)
        labelField == LabelFieldOf(records[1])
        modelName == ModelName(primaryModelResult)
        dateChart == DateChart(records, dateField,
                               IF Includes(modelName, "log") THEN "User Login Count"
                               ELSE modelName \o " Count")
        counted == LabelCounts(NoCounts, records, labelField)
        labels == ObjectKeys(counted.keys)
    IN  IF pre # {} /\ ~aggregation.hasDates THEN Throw   \* dates.length of undefined
        ELSE IF pre # {} /\ Len(aggregation.dates) > 0
        THEN Return(ChartData(aggregation.dates,
                 <<Dataset(JsString(preprocessedModel.model_label) \o " by Date",
                           aggregation.counts)>>))
        ELSE IF ~HasRecords(primaryModelResult.records)
        THEN Return(GetSampleData(visualizationType))
        ELSE IF dateField # "" /\ Len(dateChart.labels.items) > 0 THEN Return(dateChart)
        ELSE IF dateField = "" /\ labelField # "" /\ Len(labels) > 0
        THEN Return(CountedChart(labels, counted, modelName \o " by " \o labelField))
        ELSE FallThrough

\* label_field and value_field after the scan of the first record (lines 629-651).
IsLabelValue(v) ==
    v.t = "string" \/ (v.t = "array" /\ IsoDatePrefix(JsString(v)))

IsNumericValue(v) ==
    \/ v.t = "number"
    \/ ~ParseFloat(v).nan
    \/ (v.t = "array" /\ v.n > 0 /\ ~ParseFloatStr(v.s).nan)

RECURSIVE ScanFields(_, _)
ScanFields(acc, record) ==
    IF record = <<>> THEN acc
    ELSE LET field == Head(record).k
             value == Head(record).v
         IN  ScanFields(
                 IF ~IsDataField(field) THEN acc
                 ELSE IF acc.label_field = "" /\ IsLabelValue(value)
                      THEN [acc EXCEPT !.label_field = field]
                 ELSE IF acc.value_field = "" /\ IsNumericValue(value)
                      THEN [acc EXCEPT !.value_field = field]
                 ELSE acc,
                 Tail(record))

\* Array.isArray(val) && val.length > 0 ? parseFloat(val[0])
\*     : typeof val === 'number' ? val : parseFloat(val)   (lines 660-666)
PlainNumber(v) == ToNumberNoDefault(v)

\* The plain records (lines 620-747).
PlainRecordsRule(visualizationType, searchResults) ==
    IF ~HasRecords(searchResults.records) THEN FallThrough
    ELSE
    LET records == searchResults.records.items
        found == ScanFields([label_field |-> "", value_field |-> ""], records[1])
        dateField == DateFieldOf(records[1], TRUE)
        dateChart == DateChart(records, dateField, "Count by " \o dateField)
    IN  IF found.label_field # "" /\ found.value_field # ""
        THEN Return(ChartData(
                 [i \in 1..Len(records) |-> DefinedLabel(Get(records[i], found.label_field))],
                 <<Dataset(found.value_field,
                           [i \in 1..Len(records) |->
                               NumCell(PlainNumber(Get(records[i], found.value_field)))])>>))
        ELSE IF found.value_field = "" /\ dateField # "" /\ Len(dateChart.labels.items) > 0
        THEN Return(dateChart)
        ELSE FallThrough

\* A plausible slip: labels alone are taken for a finished chart.
PassThroughRuleEither(searchResults) ==
    IF searchResults.labels.has \/ searchResults.datasets.has THEN Return(searchResults)
    ELSE FallThrough

\* A plausible slip: a chart definition is looked at before labels and datasets.
PassThroughRuleAfterDefinition(searchResults) ==
    IF searchResults.labels.has /\ searchResults.datasets.has
       /\ ~searchResults.chartDefinition.has
    THEN Return(searchResults)
    ELSE FallThrough

\* The pre-processed graph data (lines 159-162): searchResults itself is returned.
PassThroughRule(searchResults) ==
    IF searchResults.labels.has /\ searchResults.datasets.has THEN Return(searchResults)
    ELSE FallThrough

\* The rules in the order of the code; a rule that falls through hands over to
\* the next one.
OrElse(first, second) == IF first.kind = "next" THEN second ELSE first

GetChartData(rep) ==
    LET visualizationType == rep.visualization_type
        config == ParsedConfig(rep)
        searchResults == SearchResults(rep.data)
    IN  IF rep.data.raw # "object" THEN Return(GetSampleData(visualizationType))
        ELSE
        OrElse(PassThroughRule(searchResults),
        OrElse(ChartDefinitionRule(visualizationType, config, searchResults),
        OrElse(LegacyConfigRule(visualizationType, config, searchResults),
        OrElse(AggregationRule(visualizationType, searchResults),
        OrElse(MultiModelRule(visualizationType, searchResults),
        OrElse(PlainRecordsRule(visualizationType, searchResults),
               Return(GetSampleData(visualizationType))))))))

(***************************************************************************)
(* One call of getChartData on the report of the component.                *)
(***************************************************************************)
BuildChart ==
    /\ chartOut.status = "idle"
    /\ report # NoReport
    /\ LET out == GetChartData(report)
       IN  chartOut' = [status |-> out.kind, value |-> out.value]
    /\ UNCHANGED <<aggRecords, aggKind, aggOut, report, dialog, page, view>>

AggUnused ==
    /\ aggRecords = NoRecords("undefined")
    /\ aggKind = "none"
    /\ aggOut = [status |-> "unused", value |-> Zero]

Direct(shape) == ReportData(shape, NotNested, NotNested)

(***************************************************************************)
(* Input space 1: payloads with a chart definition over single-model       *)
(* records {region, product, qty}.  The i-th record holds the measure 2^(i-1)*)
(* (as a number or as a numeric string), so that a sum tells which records  *)
(* it was taken over.                                                      *)
(***************************************************************************)
RECURSIVE Pow2(_)
Pow2(i) == IF i = 0 THEN 1 ELSE 2 * Pow2(i - 1)

Weight(i) == IF i % 2 = 1 THEN Num(Pow2(i - 1)) ELSE Str(NatToString(Pow2(i - 1)))

\* The entry of a field, none when the field is absent from the record.
Field(key, v) == IF v.t = "undefined" THEN <<>> ELSE <<Entry(key, v)>>

DimensionInputs == {Str("A"), Num(1), Str("1"), Null, Undefined, Str("constructor")}
StackedDimensionInputs == {Str("A"), Num(1), Str("1"), Null, Undefined}
SeriesInputs == {Str("X"), Str("Y"), Null}

RegionRecords(dims) ==
    [i \in 1..Len(dims) |-> Field("region", dims[i]) \o <<Entry("qty", Weight(i))>>]

RegionProductRecords(pairs) ==
    [i \in 1..Len(pairs) |->
        Field("region", pairs[i][1]) \o Field("product", pairs[i][2])
            \o <<Entry("qty", Weight(i))>>]

ChartDefinitionShape(items, cd) ==
    [EmptyShape EXCEPT !.records = RecArray(items), !.chartDefinition = cd]

StackedConfig(seriesField) ==
    [EmptyConfig EXCEPT !.stacked = TRUE, !.seriesField = seriesField]

RegularReportInputs ==
    {Report(mode[1],
            ReportConfig(IF mode[2] THEN StackedConfig(Undefined) ELSE EmptyConfig),
            Direct(ChartDefinitionShape(RegionRecords(dims),
                       ChartDefinition(Str("region"), mf, agg, sf)))) :
        mode \in {<<"bar", FALSE>>, <<"bar", TRUE>>, <<"line", TRUE>>, <<"pie", FALSE>>},
        dims \in SeqsUpTo(DimensionInputs, MaxChartRecs),
        mf \in {Str("qty"), Undefined},
        agg \in {Str("sum"), Str("average"), Undefined},
        sf \in {Undefined, Str("product")}}

StackedReportInputs ==
    {Report("bar", ReportConfig(StackedConfig(Undefined)),
            Direct(ChartDefinitionShape(RegionProductRecords(pairs),
                       ChartDefinition(Str("region"), Str("qty"), agg, Str("product"))))) :
        pairs \in SeqsUpTo(StackedDimensionInputs \X SeriesInputs, MaxChartRecs),
        agg \in {Str("sum"), Str("count")}}

InitChartDef ==
    /\ UiUnused
    /\ AggUnused
    /\ report \in RegularReportInputs \cup StackedReportInputs
    /\ chartOut = ChartIdle

NextChartDef == BuildChart

SpecChartDef == InitChartDef /\ [][NextChartDef]_vars

(***************************************************************************)
(* Input space 2: payloads of every shape the builder probes for, alone    *)
(* and combined, directly and nested under graphData / data, with every    *)
(* kind of report config.                                                  *)
(***************************************************************************)
PlainRecords ==
    <<<<Entry("id", Num(1)), Entry("region", Str("A")), Entry("qty", Num(5))>>,
      <<Entry("id", Num(2)), Entry("region", Str("B")), Entry("qty", Str("3"))>>>>

LogRecords ==
    <<<<Entry("id", Num(1)), Entry("create_date", Str("2024-01-02 10:00:00"))>>,
      <<Entry("id", Num(2)), Entry("create_date", Str("2024-01-01T08:00:00"))>>,
      <<Entry("id", Num(3)), Entry("create_date", Str("2024-01-02 11:30:00"))>>>>

UserNames == <<"Ann", "Bob", "Ann", "Cy", "Bob">>

UserRecords(count) ==
    [i \in 1..count |->
        <<Entry("id", Num(i)), Entry("name", Str(UserNames[((i - 1) % 5) + 1]))>>]

LogModel ==
    ModelResult(Str("res.users.log"), Undefined, RecArray(LogRecords), NoDateAggregation)
UsersModel(count) ==
    ModelResult(Str("res.users"), Str("Users"), RecArray(UserRecords(count)),
                NoDateAggregation)
\* A model whose records hold neither a date nor a string.
NumbersModel ==
    ModelResult(Str("sale.order"), Undefined,
                RecArray(<<<<Entry("id", Num(1)), Entry("qty", Num(5))>>>>),
                NoDateAggregation)
\* A model entry without records.
BareModel ==
    ModelResult(Str("res.partner"), Undefined, NoRecords("undefined"), NoDateAggregation)
\* A model with a precomputed _dateAggregation.
PreprocessedModel ==
    ModelResult(Str("res.users.log"), Str("Logins"), NoRecords("undefined"),
                [has |-> TRUE, hasDates |-> TRUE,
                 dates |-> <<"2024-01-01", "2024-01-02">>,
                 counts |-> <<IntCell(1), IntCell(2)>>])
\* A model whose _dateAggregation has no dates key.
PreprocessedNoDatesModel ==
    ModelResult(Str("res.users.log"), Str("Logins"), NoRecords("undefined"),
                [has |-> TRUE, hasDates |-> FALSE, dates |-> <<>>, counts |-> <<>>])

ModelInputs ==
    {LogModel, UsersModel(2), NumbersModel, BareModel, PreprocessedModel,
     PreprocessedNoDatesModel}

\* results: absent, an object that is no array, or an array of model results.
ResultsInputs ==
    {NoResults, ResultsObject} \cup {Results(q) : q \in SeqsUpTo(ModelInputs, MaxModels)}

GraphLabels == <<"L1", "L2">>
GraphDatasets == <<Dataset("Series", <<IntCell(1), IntCell(2)>>)>>

LabelsInputs == {<<Absent, Absent>>, <<Present(GraphLabels), Present(GraphDatasets)>>,
                 <<Present(GraphLabels), Absent>>}

ChartDefinitionInputs ==
    {NoChartDefinition,
     ChartDefinition(Str("region"), Str("qty"), Str("sum"), Undefined),
     ChartDefinition(Str("region"), Undefined, Undefined, Undefined),
     ChartDefinition(Undefined, Str("qty"), Str("sum"), Undefined)}

LegacyConfig ==
    [EmptyConfig EXCEPT !.dimensionField = Str("region"), !.measureField = Str("qty")]
LegacyStackedConfig ==
    [LegacyConfig EXCEPT !.stacked = TRUE, !.seriesField = Str("product")]

ConfigInputs ==
    {ReportConfig(EmptyConfig), ReportConfig(LegacyConfig),
     ReportConfig(LegacyStackedConfig), InvalidConfig}

VisualizationTypes == {"bar", "line", "pie"}

ShapeInputs ==
    {[EmptyShape EXCEPT !.labels = ld[1], !.datasets = ld[2], !.chartDefinition = cd,
                        !.multi_model = mm[1], !.results = mm[2], !.records = rc,
                        !.aggregation = ag,
                        !.dimension = IF ag THEN Str("region") ELSE Undefined,
                        !.measure = IF ag THEN Str("qty") ELSE Undefined] :
        ld \in LabelsInputs,
        cd \in ChartDefinitionInputs,
        mm \in {<<FALSE, NoResults>>, <<FALSE, Results(<<LogModel>>)>>}
                  \cup {<<TRUE, r>> : r \in ResultsInputs},
        rc \in {NoRecords("undefined"), RecArray(PlainRecords)},
        ag \in BOOLEAN}

NestedShapeInputs ==
    {EmptyShape,
     ChartData(GraphLabels, GraphDatasets),
     [EmptyShape EXCEPT !.labels = Present(GraphLabels)],
     [EmptyShape EXCEPT !.records = RecArray(PlainRecords)]}

NestedDataInputs ==
    UNION {{ReportData(own, Nested(inner), NotNested),
            ReportData(own, NotNested, Nested(inner)),
            ReportData(own, Nested(inner), Nested(own))} :
              own \in NestedShapeInputs, inner \in NestedShapeInputs}

ShapeReportInputs ==
    {Report(viz, config, data) :
        viz \in VisualizationTypes,
        config \in ConfigInputs,
        data \in {Direct(shape) : shape \in ShapeInputs} \cup NestedDataInputs
                    \cup {NoReportData("absent"), NoReportData("invalid")}}

(***************************************************************************)
(* Input space 3: multi-model payloads with one dated model (records with  *)
(* create_date in ISO form, with or without a time of day) next to at most *)
(* one other model.                                                        *)
(***************************************************************************)
DateInputs ==
    {"2024-01-02T10:00:00", "2024-01-02 09:30:00", "2024-01-01", "2023-12-31 23:59:59"}

\* withLogin: the first record holds a login_date, in front of its create_date.
DatedRecords(dates, withLogin) ==
    [i \in 1..Len(dates) |->
        <<Entry("id", Num(i))>>
            \o (IF withLogin /\ i = 1 THEN <<Entry("login_date", Str("2024-03-03"))>>
                ELSE <<>>)
            \o <<Entry("create_date", Str(dates[i]))>>]

DatedModel(dates, withLogin) ==
    ModelResult(Str("res.users.log"), Undefined, RecArray(DatedRecords(dates, withLogin)),
                NoDateAggregation)

DatedResultsInputs ==
    UNION {{Results(<<DatedModel(dates, withLogin)>>)}
             \cup UNION {{Results(<<DatedModel(dates, withLogin), UsersModel(count)>>),
                          Results(<<UsersModel(count), DatedModel(dates, withLogin)>>)} :
                            count \in 1..MaxDateRecs} :
              dates \in SeqsUpTo(DateInputs, MaxDateRecs) \ {<<>>},
              withLogin \in BOOLEAN}

DatedLegacyConfig ==
    [EmptyConfig EXCEPT !.dimensionField = Str("create_date"), !.measureField = Str("id")]

DatedReportInputs ==
    {Report(viz, ReportConfig(config),
            Direct([EmptyShape EXCEPT !.multi_model = TRUE, !.results = results])) :
        viz \in {"bar", "pie"},
        config \in {EmptyConfig, DatedLegacyConfig},
        results \in DatedResultsInputs}

(***************************************************************************)
(* Input space 4: records in which a dimension value comes back, under the *)
(* legacy configs and as a chart definition.                               *)
(***************************************************************************)
RepeatedRecords ==
    <<<<Entry("region", Str("A")), Entry("product", Str("X")), Entry("qty", Num(5))>>,
      <<Entry("region", Str("B")), Entry("product", Str("Y")), Entry("qty", Str("3"))>>,
      <<Entry("region", Str("A")), Entry("product", Str("X")), Entry("qty", Num(2))>>>>

RepeatedReportInputs ==
    {Report(viz, config, Direct([EmptyShape EXCEPT !.records = RecArray(RepeatedRecords),
                                                   !.chartDefinition = cd])) :
        viz \in VisualizationTypes,
        config \in ConfigInputs,
        cd \in {NoChartDefinition,
                ChartDefinition(Str("region"), Str("qty"), Str("sum"), Str("product"))}}

InitBuilder ==
    /\ UiUnused
    /\ AggUnused
    /\ report \in ShapeReportInputs \cup DatedReportInputs \cup RepeatedReportInputs
    /\ chartOut = ChartIdle

NextBuilder == BuildChart

SpecBuilder == InitBuilder /\ [][NextBuilder]_vars

(***************************************************************************)
(* The chart-definition claims.                                            *)
(***************************************************************************)
ChartRan == chartOut.status # "idle"
ChartReturned == chartOut.status = "return"
OutLabels == chartOut.value.labels.items
OutDatasets == chartOut.value.datasets.items

\* The object whose shape decides: payload.graphData if the payload has one,
\* else payload.data if it has one, else the payload itself.
InputShape ==
    CASE report.data.graphData.has -> report.data.graphData.shape
      [] ~report.data.graphData.has /\ report.data.data.has -> report.data.data.shape
      [] OTHER -> report.data.own
InputRecords == InputShape.records.items
InputDefinition == InputShape.chartDefinition
InputStacked ==
    IsStacked(report.visualization_type, ParsedConfig(report), InputDefinition.seriesField)

PairwiseDistinct(q) == \A i, j \in 1..Len(q) : q[i] = q[j] => i = j

\* A chart definition with dimension, measure and aggregation over a non-empty
\* single-model record set, on a chart that is not stacked.
RegularCase ==
    /\ report.data.raw = "object"
    /\ ~(InputShape.labels.has /\ InputShape.datasets.has)
    /\ InputDefinition.has
    /\ Truthy(InputDefinition.dimensionField)
    /\ InputDefinition.measureField.t = "string"
    /\ ~InputShape.multi_model
    /\ HasRecords(InputShape.records)
    /\ ~InputStacked

RecordLabel(r) == DimensionLabel(GetField(r, InputDefinition.dimensionField))

RecordsLabelled(label) ==
    LET Labelled(r) == RecordLabel(r) = label IN SelectSeq(InputRecords, Labelled)

RegularChartIsGrouped ==
    /\ ChartReturned
    /\ Len(OutDatasets) = 1
    /\ PairwiseDistinct(OutLabels)
    /\ {OutLabels[i] : i \in 1..Len(OutLabels)}
           = {RecordLabel(InputRecords[i]) : i \in 1..Len(InputRecords)}
    /\ Len(OutDatasets[1].data) = Len(OutLabels)
    /\ \A i \in 1..Len(OutLabels) :
           OutDatasets[1].data[i] =
               NumCell(AggregateValues(RecArray(RecordsLabelled(OutLabels[i])),
                                       InputDefinition.measureField.s,
                                       AggregationTypeOf(InputDefinition)))

\* C5: a chart definition (d, m, k) on a chart that is not stacked, over a
\* non-empty record set, yields exactly one dataset with one label per distinct
\* dimension value, data[i] being the aggregate of the records whose d value
\* has the label labels[i]; every record is in exactly one group.
C5_RegularChart == (ChartRan /\ RegularCase) => RegularChartIsGrouped

\* What holds of the regular chart: it is grouped as C5 says whenever no
\* dimension value reads as a name inherited from Object.prototype.
RegularChartOfOwnNames ==
    (ChartRan /\ RegularCase
        /\ \A i \in 1..Len(InputRecords) : RecordLabel(InputRecords[i]) \notin InheritedNames)
    => RegularChartIsGrouped

\* A chart definition with a series field on a stacked bar chart.
StackedCase ==
    /\ report.data.raw = "object"
    /\ ~(InputShape.labels.has /\ InputShape.datasets.has)
    /\ InputDefinition.has
    /\ Truthy(InputDefinition.dimensionField)
    /\ ~InputShape.multi_model
    /\ HasRecords(InputShape.records)
    /\ InputStacked

InputDimensions == Distinct(MapField(InputRecords, InputDefinition.dimensionField))
InputSeries == Distinct(MapField(InputRecords, InputDefinition.seriesField))

\* The records having exactly the dimension value x and the series value sv.
RecordsHaving(x, sv) ==
    LET Has(r) == /\ GetField(r, InputDefinition.dimensionField) = x
                  /\ GetField(r, InputDefinition.seriesField) = sv
    IN  SelectSeq(InputRecords, Has)

StackedChartIsCrossProduct ==
    /\ ChartReturned
    /\ Len(OutDatasets) = Len(InputSeries)
    /\ Len(OutLabels) = Len(InputDimensions)
    /\ \A sv \in 1..Len(OutDatasets) :
        /\ Len(OutDatasets[sv].data) = Len(InputDimensions)
        /\ \A d \in 1..Len(InputDimensions) :
            OutDatasets[sv].data[d] =
                NumCell(AggregateValues(
                            RecArray(RecordsHaving(InputDimensions[d], InputSeries[sv])),
                            JsString(InputDefinition.measureField),
                            AggregationTypeOf(InputDefinition)))

\* C6: the stacked bar chart of a chart definition has one dataset per distinct
\* series value and in each one point per distinct dimension value; the point
\* of (x, s) is the aggregate of the records having dimension x and series s,
\* and 0 when there is none.
C6_StackedChart == (ChartRan /\ StackedCase) => StackedChartIsCrossProduct

\* What holds of the stacked chart: it is the cross product C6 describes
\* whenever all dimension and series values are strings, so that no two distinct
\* values are equal under ==.
StackedChartOfStrings ==
    (ChartRan /\ StackedCase
        /\ (\A i \in 1..Len(InputDimensions) : InputDimensions[i].t = "string")
        /\ (\A j \in 1..Len(InputSeries) : InputSeries[j].t = "string"))
    => StackedChartIsCrossProduct


(***************************************************************************)
(* The claims about the builder as a whole, under SpecBuilder.             *)
(***************************************************************************)
InputConfig == report.config.value
\* The report config holds the legacy pair of field selections.
LegacyPairConfigured ==
    /\ report.config.raw = "object"
    /\ Truthy(InputConfig.dimensionField)
    /\ Truthy(InputConfig.measureField)

IsChart == chartOut.value.labels.has /\ chartOut.value.datasets.has

\* C7: getChartData never fails outward: for every payload and config it
\* returns a value with labels and datasets and raises no exception.
C7_NeverFails == ChartRan => ChartReturned /\ IsChart

SampleChartValues == <<30, 20, 25, 15, 10>>
IsSampleChart ==
    /\ ChartReturned
    /\ OutLabels = <<"Sample A", "Sample B", "Sample C", "Sample D", "Sample E">>
    /\ Len(OutDatasets) = 1
    /\ OutDatasets[1].data = [i \in 1..5 |-> IntCell(SampleChartValues[i])]

\* The payload is absent or no JSON, or the object looked at has none of the
\* recognised shapes and the config holds no legacy field selection.
Unrecognised ==
    \/ report.data.raw # "object"
    \/ /\ ~(InputShape.labels.has /\ InputShape.datasets.has)
       /\ ~InputShape.chartDefinition.has
       /\ \/ report.config.raw # "object"
          \/ InputConfig.dimensionField = Undefined /\ InputConfig.measureField = Undefined
       /\ ~InputShape.aggregation
       /\ ~InputShape.multi_model
       /\ InputShape.records.t # "array"

\* C8: a payload of no recognised shape, and an absent or unparseable payload,
\* yields the sample data (Sample A..E, 30 20 25 15 10) for every
\* visualization type.
C8_SampleData == ChartRan /\ Unrecognised => IsSampleChart

\* A pie report whose payload has labels but no datasets shows the sample data.
C8_Witness ==
    /\ ChartRan /\ Unrecognised /\ IsSampleChart
    /\ report.data.raw = "object"
    /\ InputShape.labels.has
    /\ report.visualization_type = "pie"

\* C9 as stated: a payload with labels and datasets of its own is returned
\* as it is, whatever else it contains and whatever the config holds.
C9_PayloadPassThrough ==
    ChartRan /\ report.data.raw = "object"
             /\ report.data.own.labels.has /\ report.data.own.datasets.has
        => ChartReturned /\ chartOut.value = report.data.own

\* C9, amended: when the object the builder looks at (payload.graphData if
\* present, else payload.data if present, else the payload itself) has both
\* labels and datasets, that object is returned as it is, whatever else it
\* contains and whatever the config holds.
C9_PassThroughFirst ==
    ChartRan /\ report.data.raw = "object"
             /\ InputShape.labels.has /\ InputShape.datasets.has
        => ChartReturned /\ chartOut.value = InputShape

\* A payload that is at once a finished chart, a chart definition, a
\* multi-model result, an aggregation result and a record list, with the legacy
\* pair configured, is returned untouched.
C9_Witness ==
    /\ ChartReturned
    /\ ~report.data.graphData.has /\ ~report.data.data.has
    /\ report.data.own.labels.has /\ report.data.own.datasets.has
    /\ report.data.own.chartDefinition.has
    /\ report.data.own.multi_model /\ HasRecords(report.data.own.results)
    /\ report.data.own.aggregation
    /\ HasRecords(report.data.own.records)
    /\ LegacyPairConfigured
    /\ chartOut.value = report.data.own
    /\ OutLabels = GraphLabels

InputModels == InputShape.results.items
IsIsoDate(v) == v.t = "string" /\ IsoDatePrefix(v.s)
DatePortion(v) == SubSeq(v.s, 1, 10)
CreateDate(record) == Get(record, "create_date")

\* The models all of whose records (at least one) carry an ISO create_date.
DatedModels ==
    {m \in 1..Len(InputModels) :
        /\ InputModels[m].records.t = "array"
        /\ Len(InputModels[m].records.items) > 0
        /\ \A k \in 1..Len(InputModels[m].records.items) :
              IsIsoDate(CreateDate(InputModels[m].records.items[k]))}

MultiModelWithoutAggregation ==
    /\ report.data.raw = "object"
    /\ ~(InputShape.labels.has /\ InputShape.datasets.has)
    /\ ~InputShape.aggregation
    /\ InputShape.multi_model
    /\ InputShape.results.t = "array"
    /\ ~InputShape.chartDefinition.has
    /\ \A m \in 1..Len(InputModels) : ~InputModels[m].dateAggregation.has

RECURSIVE CellSum(_)
CellSum(data) == IF data = <<>> THEN 0 ELSE data[1].num + CellSum(Tail(data))

\* One dataset counting the records per date portion of create_date, the
\* labels ascending.
IsDateBucketChart(records) ==
    /\ ChartReturned
    /\ Len(OutDatasets) = 1
    /\ {OutLabels[i] : i \in 1..Len(OutLabels)}
          = {DatePortion(CreateDate(records[k])) : k \in 1..Len(records)}
    /\ \A i \in 1..Len(OutLabels) : \A j \in 1..Len(OutLabels) :
          i < j => StrLess(OutLabels[i], OutLabels[j])
    /\ Len(OutDatasets[1].data) = Len(OutLabels)
    /\ \A i \in 1..Len(OutLabels) :
          OutDatasets[1].data[i] =
              IntCell(Cardinality({k \in 1..Len(records) :
                                      DatePortion(CreateDate(records[k])) = OutLabels[i]}))
    /\ CellSum(OutDatasets[1].data) = Len(records)

\* C10 as stated: a multi-model payload without chart definition and without
\* _dateAggregation, one model of which has records with an ISO create_date,
\* yields that model's counts per date.
C10_AnyDatedModel ==
    ChartRan /\ MultiModelWithoutAggregation /\ DatedModels # {}
        => \E m \in DatedModels : IsDateBucketChart(InputModels[m].records.items)

ModelSize(m) ==
    IF InputModels[m].records.t = "array" THEN Len(InputModels[m].records.items) ELSE 0

\* The first listed of the models with the most records.
LargestModelFirstListed(m) ==
    /\ \A o \in 1..Len(InputModels) : ModelSize(o) <= ModelSize(m)
    /\ \A o \in 1..(m - 1) : ModelSize(o) < ModelSize(m)

IsTechnicalField(field) ==
    \/ field \in {"id", "has_linked_data"}
    \/ (Len(field) >= 5 /\ SubSeq(field, Len(field) - 4, Len(field)) = "_info")

\* No field in front of create_date in the record is a date-shaped data field.
CreateDateComesFirst(record) ==
    \A i \in 1..Len(record) : \A j \in 1..Len(record) :
        (record[j].k = "create_date" /\ i < j)
            => (IsTechnicalField(record[i].k)
                \/ ~(Len(JsString(record[i].v)) >= 10
                     /\ IsoDatePrefix(JsString(record[i].v))))

\* C10, amended: for a multi-model payload (no labels+datasets, no aggregation
\* flag) without chart definition and without _dateAggregation, under a config
\* without the legacy pair, when the model with the most records (the first
\* listed among equals) has an ISO create_date in all its records and no
\* date-shaped data field in front of it in its first record, the builder
\* returns one dataset of that model's record counts per date portion, the
\* labels ascending, the counts summing to the number of its records.
C10_DateBuckets ==
    \A m \in DatedModels :
        (/\ ChartRan
         /\ MultiModelWithoutAggregation
         /\ ~LegacyPairConfigured
         /\ LargestModelFirstListed(m)
         /\ CreateDateComesFirst(InputModels[m].records.items[1]))
            => IsDateBucketChart(InputModels[m].records.items)

\* Two records of one day at different times and one of the day before, next
\* to a smaller model: two buckets, the earlier day first.
C10_Witness ==
    /\ ChartReturned
    /\ MultiModelWithoutAggregation /\ ~LegacyPairConfigured
    /\ Len(InputModels) = 2
    /\ 1 \in DatedModels /\ LargestModelFirstListed(1)
    /\ Len(InputModels[1].records.items) = 3
    /\ [k \in 1..3 |-> CreateDate(InputModels[1].records.items[k]).s]
          = <<"2024-01-02T10:00:00", "2024-01-02 09:30:00", "2024-01-01">>
    /\ OutLabels = <<"2024-01-01", "2024-01-02">>
    /\ OutDatasets[1].data = <<IntCell(1), IntCell(2)>>


(***************************************************************************)
(* ReportDialog: the field inspector (part_002 lines 58-195).              *)
(***************************************************************************)
True == [t |-> "boolean", n |-> 1, s |-> ""]
False == [t |-> "boolean", n |-> 0, s |-> ""]

\* str.trim()
Trim(str) ==
    LET start == SkipSpaces(str, 1)
    IN  IF start > Len(str) THEN "" ELSE TrimEnd(SubSeq(str, start, Len(str)))

\* str.substring(0, end)
Substring(str, end) == IF Len(str) <= end THEN str ELSE SubSeq(str, 1, end)

\* The type _addFieldsFromRecord gives to a value (lines 93-100).
FieldTypeOf(value) ==
    IF value.t = "number" THEN "number"
    ELSE IF value.t = "string" /\ IsoDatePrefix(value.s) THEN "date"
    ELSE "string"

FieldDescriptor(name, type) == [name |-> name, type |-> type, label |-> FieldLabel(name)]

\* _addFieldsFromRecord: one descriptor per field of the record that is not
\* technical, in the order of the record.
RECURSIVE AddFieldsFromRecord(_)
AddFieldsFromRecord(record) ==
    IF record = <<>> THEN <<>>
    ELSE LET field == Head(record).k
         IN  (IF field \in {"id", "has_linked_data"} \/ EndsWith(field, "_info")
              THEN <<>>
              ELSE <<FieldDescriptor(field, FieldTypeOf(Head(record).v))>>)
             \o AddFieldsFromRecord(Tail(record))

\* _extractAvailableFields: the fields of the first record of the first model
\* with records, or of the first of the records.
ExtractAvailableFields(searchResults) ==
    IF searchResults.multi_model /\ searchResults.results.t = "array"
    THEN LET models == searchResults.results.items
             withRecords == {i \in 1..Len(models) : HasRecords(models[i].records)}
         IN  IF withRecords = {} THEN <<>>
             ELSE AddFieldsFromRecord(
                      models[CHOOSE i \in withRecords :
                                \A j \in withRecords : i <= j].records.items[1])
    ELSE IF HasRecords(searchResults.records)
         THEN AddFieldsFromRecord(searchResults.records.items[1])
         ELSE <<>>

\* fields.find(f => ...): the index of the first of the fields that pass the
\* test (hits), 0 for none.
FirstOf(hits) == IF hits = {} THEN 0 ELSE CHOOSE i \in hits : \A j \in hits : i <= j

FieldsOfType(fields, type) == {i \in 1..Len(fields) : fields[i].type = type}
FieldsNotNamed(fields, names) == {i \in 1..Len(fields) : Str(fields[i].name) \notin names}

\* _getDefaultDimensionField: first date, else first string, else first field.
GetDefaultDimensionField(fields) ==
    LET dateField == FirstOf(FieldsOfType(fields, "date"))
        stringField == FirstOf(FieldsOfType(fields, "string"))
    IN  IF dateField # 0 THEN Str(fields[dateField].name)
        ELSE IF stringField # 0 THEN Str(fields[stringField].name)
        ELSE IF Len(fields) > 0 THEN Str(fields[1].name)
        ELSE Null

\* _getDefaultMeasureField: first number, else first field that is not the
\* default dimension, else the first field.
GetDefaultMeasureField(fields) ==
    LET numField == FirstOf(FieldsOfType(fields, "number"))
        alternateField == FirstOf(FieldsNotNamed(fields, {GetDefaultDimensionField(fields)}))
    IN  IF numField # 0 THEN Str(fields[numField].name)
        ELSE IF alternateField # 0 THEN Str(fields[alternateField].name)
        ELSE IF Len(fields) > 0 THEN Str(fields[1].name)
        ELSE Null

\* _getDefaultSeriesField
GetDefaultSeriesField(fields) ==
    LET dimensionField == GetDefaultDimensionField(fields)
        measureField == GetDefaultMeasureField(fields)
        IsString(f) == f.type = "string"
        stringFields == SelectSeq(fields, IsString)
        alternateString == FirstOf(FieldsNotNamed(stringFields, {dimensionField}))
        alternateField == FirstOf(FieldsNotNamed(fields, {dimensionField, measureField}))
    IN  IF Len(stringFields) > 1 /\ alternateString # 0
        THEN Str(stringFields[alternateString].name)
        ELSE IF Len(stringFields) = 1 /\ Str(stringFields[1].name) # dimensionField
        THEN Str(stringFields[1].name)
        ELSE IF alternateField # 0 THEN Str(fields[alternateField].name)
        ELSE IF Len(fields) > 0 THEN Str(fields[1].name)
        ELSE Null

\* _getAggregationTypes
AggregationTypes ==
    <<[id |-> "none", numericOnly |-> FALSE], [id |-> "count", numericOnly |-> FALSE],
      [id |-> "sum", numericOnly |-> TRUE], [id |-> "average", numericOnly |-> TRUE],
      [id |-> "min", numericOnly |-> TRUE], [id |-> "max", numericOnly |-> TRUE]>>

\* availableFields.find(f => f.name === name) is a field of type number.
IsNumericField(fields, name) ==
    LET fieldObj == FirstOf({i \in 1..Len(fields) : Str(fields[i].name) = name})
    IN  fieldObj # 0 /\ fields[fieldObj].type = "number"

\* _getApplicableAggregationTypes: the ids offered for the selected measure.
ApplicableAggregationTypes(state) ==
    {AggregationTypes[i].id : i \in
        {j \in 1..Len(AggregationTypes) :
            ~AggregationTypes[j].numericOnly
               \/ IsNumericField(state.availableFields, state.measureField)}}


(***************************************************************************)
(* ReportDialog: its state and its handlers (part_002 lines 22-52,         *)
(* 201-392, 478-480).  Each handler is a function of the dialog.           *)
(***************************************************************************)
DialogConfig(stacked, cumulated, dimensionField, measureField, seriesField) ==
    [stacked |-> stacked, cumulated |-> cumulated, dimensionField |-> dimensionField,
     measureField |-> measureField, seriesField |-> seriesField]

\* setup(): the dialog as it opens on props {queryText, searchResults, onConfirm}.
NewDialog(queryText, searchResults) ==
    LET availableFields == ExtractAvailableFields(searchResults)
    IN  [open |-> TRUE,
         queryText |-> queryText,
         onConfirm |-> TRUE,
         name |-> Substring(queryText, 50),
         visualizationType |-> "bar",
         validationError |-> Null,
         availableFields |-> availableFields,
         dimensionField |-> GetDefaultDimensionField(availableFields),
         measureField |-> GetDefaultMeasureField(availableFields),
         aggregationType |-> "none",
         seriesField |-> GetDefaultSeriesField(availableFields),
         config |-> DialogConfig(False, False, Undefined, Undefined, Undefined),
         handed |-> <<>>]

\* A plausible slip: the series selection is dropped with the series option.
VisualizationTypeChangedDroppingSeries(d, value) ==
    [d EXCEPT !.visualizationType = value,
              !.seriesField = IF value = "bar" THEN d.seriesField ELSE Null,
              !.config = DialogConfig(False, False, d.dimensionField, d.measureField,
                                      Undefined)]

\* A plausible slip: the config is carried over whole, flags included.
VisualizationTypeChangedKeepingFlags(d, value) ==
    [d EXCEPT !.visualizationType = value,
              !.config = DialogConfig(d.config.stacked, d.config.cumulated,
                                      d.dimensionField, d.measureField,
                                      IF value = "bar" THEN d.seriesField ELSE Undefined)]

\* onVisualizationTypeChanged
VisualizationTypeChanged(d, value) ==
    LET previousType == d.visualizationType
    IN  [d EXCEPT
           !.visualizationType = value,
           !.config =
              CASE value = "bar" ->
                     DialogConfig(IF previousType = "bar" THEN d.config.stacked ELSE False,
                                  Undefined, d.dimensionField, d.measureField,
                                  d.seriesField)
                [] value = "line" ->
                     DialogConfig(Undefined,
                                  IF previousType = "line" THEN d.config.cumulated
                                  ELSE False,
                                  d.dimensionField, d.measureField, Undefined)
                [] value = "pie" ->
                     DialogConfig(Undefined, Undefined, d.dimensionField, d.measureField,
                                  Undefined)
                [] OTHER -> d.config]

\* A plausible slip: the aggregation is reset for every field.
MeasureFieldChangedAlwaysCount(d, value) ==
    [d EXCEPT !.measureField = value,
              !.aggregationType =
                  IF d.aggregationType \in {"sum", "average", "min", "max"} THEN "count"
                  ELSE d.aggregationType]

\* onMeasureFieldChanged
MeasureFieldChanged(d, value) ==
    LET isNumeric == IsNumericField(d.availableFields, value)
        current == {i \in 1..Len(AggregationTypes) :
                       AggregationTypes[i].id = d.aggregationType}
        numericOnly == \E i \in current : AggregationTypes[i].numericOnly
    IN  [d EXCEPT !.measureField = value,
                  !.aggregationType = IF numericOnly /\ ~isNumeric THEN "count"
                                      ELSE d.aggregationType]

\* A plausible slip: the series field of a stacked bar chart is not asked for.
ValidationErrorOfWithoutSeries(d) ==
    IF d.name = "" \/ Trim(d.name) = "" THEN Str("Report name is required")
    ELSE IF d.queryText = "" THEN Str("No search query provided")
    ELSE IF ~Truthy(d.dimensionField) THEN Str("Please select a dimension field")
    ELSE IF ~Truthy(d.measureField) THEN Str("Please select a measure field")
    ELSE Null

\* validateInputs: the validation error, null when the inputs are valid.
ValidationErrorOf(d) ==
    IF d.name = "" \/ Trim(d.name) = "" THEN Str("Report name is required")
    ELSE IF d.queryText = "" THEN Str("No search query provided")
    ELSE IF ~Truthy(d.dimensionField) THEN Str("Please select a dimension field")
    ELSE IF ~Truthy(d.measureField) THEN Str("Please select a measure field")
    ELSE IF d.visualizationType = "bar" /\ d.config.stacked = True
            /\ ~Truthy(d.seriesField)
         THEN Str("Please select a series field for stacked bar chart")
    ELSE Null


\* The chart definition onConfirm attaches to the payload (lines 348-360).
ChartDefinitionOf(d) ==
    [dimensionField |-> d.dimensionField,
     measureField |-> d.measureField,
     aggregationType |-> d.aggregationType,
     seriesField |-> IF d.visualizationType = "bar" /\ d.config.stacked = True
                     THEN d.seriesField ELSE Null,
     fieldTypes |-> [i \in 1..Len(d.availableFields) |->
                        Entry(d.availableFields[i].name, Str(d.availableFields[i].type))]]

\* state.config after lines 339-345.
ConfirmedConfig(d) ==
    [d.config EXCEPT !.dimensionField = d.dimensionField,
                     !.measureField = d.measureField,
                     !.seriesField = IF d.visualizationType = "bar" /\ d.config.stacked = True
                                     THEN d.seriesField ELSE d.config.seriesField]

\* reportData (lines 366-372), the payload left out.
ReportBundle(d) ==
    [name |-> Trim(d.name),
     query_text |-> Trim(d.queryText),
     visualization_type |-> d.visualizationType,
     config |-> ConfirmedConfig(d),
     chartDefinition |-> ChartDefinitionOf(d)]

\* The second check of name and query text (lines 375-382).
BundleErrorOf(bundle) ==
    IF bundle.name = "" /\ bundle.query_text = ""
    THEN Str("Name is required. Query text is required")
    ELSE IF bundle.name = "" THEN Str("Name is required")
    ELSE IF bundle.query_text = "" THEN Str("Query text is required")
    ELSE Null

\* onConfirm hands the bundle over: validation passed, the caller gave an
\* onConfirm, and the trimmed name and query text are not empty.
HandsOver(d) ==
    ValidationErrorOf(d) = Null /\ d.onConfirm /\ BundleErrorOf(ReportBundle(d)) = Null

\* onConfirm, the dialog's side: the call of props.onConfirm is followed at
\* once by props.close() (lines 388-390).
Confirmed(d) ==
    IF ValidationErrorOf(d) # Null THEN [d EXCEPT !.validationError = ValidationErrorOf(d)]
    ELSE IF ~d.onConfirm THEN [d EXCEPT !.validationError = Null]
    ELSE IF BundleErrorOf(ReportBundle(d)) # Null
         THEN [d EXCEPT !.validationError = BundleErrorOf(ReportBundle(d)),
                        !.config = ConfirmedConfig(d)]
    ELSE [d EXCEPT !.validationError = Null,
                   !.config = ConfirmedConfig(d),
                   !.handed = Append(d.handed, ReportBundle(d)),
                   !.open = FALSE]

(***************************************************************************)
(* SearchPage: its state (search_page.js lines 16-41) and the requests it  *)
(* has in flight.                                                          *)
(***************************************************************************)
NoResultsYet == [kind |-> "null"]

\* The page once mounted and its first get_favorites answered.
IdlePage ==
    [mounted |-> TRUE,
     query |-> "",
     loading |-> FALSE,
     results |-> NoResultsYet,
     error |-> Null,
     activeTab |-> "search",
     favorites |-> "fetched",
     favoritesLoading |-> FALSE,
     savingFavorite |-> FALSE,
     currentSearchSaved |-> FALSE,
     reports |-> "initial",
     reportsLoading |-> FALSE,
     creatingReport |-> FALSE,
     selectedReport |-> Null,
     searchRequests |-> <<>>,      \* the queries of the search requests in flight
     handled |-> [kind |-> "none"],  \* the last search response handled
     favoritesRequests |-> {},     \* the get_favorites requests in flight, by number
     favoritesIssued |-> 1,        \* get_favorites requests issued so far
     favoritesFrom |-> 1,          \* the request whose answer state.favorites holds
     saveRequests |-> <<>>,        \* the query_text of each save_favorite in flight
     savedQueries |-> {},          \* the queries the server has saved as favourites
     searchedQuery |-> "",         \* the query of the search started last
     deleteFavoriteRequests |-> 0, \* delete_favorite requests in flight
     deleteReportRequests |-> 0,   \* delete_report requests in flight
     reportsIssued |-> 0,          \* get_reports requests issued so far
     createRequests |-> 0,         \* create_report requests in flight
     reportsRequests |-> 0,        \* get_reports requests in flight
     saveOutcome |-> "none",       \* how the last saveReport ended
     notified |-> "none"]          \* the last notification shown

\* setup(): the page as constructed, its get_favorites request in flight.
InitialPage == [IdlePage EXCEPT !.favorites = "initial", !.favoritesLoading = TRUE,
                                !.favoritesRequests = {1}, !.favoritesFrom = 0]

\* loadReports, up to the fetch.
LoadReports(pg) ==
    [pg EXCEPT !.reportsLoading = TRUE, !.reportsRequests = @ + 1, !.reportsIssued = @ + 1]

\* loadFavorites, up to the fetch.
LoadFavorites(pg) ==
    [pg EXCEPT !.favoritesLoading = TRUE,
               !.favoritesIssued = @ + 1,
               !.favoritesRequests = @ \cup {pg.favoritesIssued + 1}]

\* setActiveTab
SetActiveTab(pg, tab) ==
    LET switched == [pg EXCEPT !.activeTab = tab]
        loaded == IF tab = "saved" THEN LoadFavorites(switched)
                  ELSE IF tab = "reports" THEN LoadReports(switched)
                  ELSE switched
    IN  IF tab # "reports" THEN [loaded EXCEPT !.selectedReport = Null] ELSE loaded

\* saveReport(reportData), up to the fetch.
SaveReport(pg, reportData) ==
    IF reportData.name = "" \/ reportData.query_text = ""
    THEN [pg EXCEPT !.creatingReport = FALSE, !.notified = "danger",
                    !.saveOutcome = "missing"]
    ELSE [pg EXCEPT !.creatingReport = TRUE, !.createRequests = @ + 1,
                    !.saveOutcome = "pending"]

\* The answers to create_report: a top-level error, a result with status
\* "error", a result, or no answer at all (the request or its parsing fails).
CreateReportAnswers == {"error", "result_error", "created", "failure"}

\* saveReport, from the answer on (lines 361-402).
SaveReportAnswered(pg, answer) ==
    LET done == [pg EXCEPT !.createRequests = @ - 1, !.creatingReport = FALSE]
    IN  CASE answer = "error" -> [done EXCEPT !.saveOutcome = "error"]
          [] answer = "result_error" ->
                [done EXCEPT !.saveOutcome = "error", !.notified = "danger"]
          [] answer = "failure" -> [done EXCEPT !.saveOutcome = "failed"]
          [] OTHER ->
                [(IF pg.activeTab = "reports" THEN LoadReports(done)
                  ELSE SetActiveTab(done, "reports"))
                    EXCEPT !.saveOutcome = "created", !.notified = "success"]

\* The answers to get_reports and get_favorites: an error, a list, a result
\* without list, or no answer at all.
ListAnswers == {"error", "list", "nothing", "failure"}

\* loadReports, from the answer on (lines 424-443).
LoadReportsAnswered(pg, answer) ==
    [pg EXCEPT !.reportsRequests = @ - 1,
               !.reportsLoading = FALSE,
               !.reports = CASE answer = "error" -> pg.reports
                             [] answer = "list" -> "fetched"
                             [] OTHER -> "empty"]


(***************************************************************************)
(* The report dialog opened by the search page on its results, the user's  *)
(* events on it, and the answers to the requests of saveReport.            *)
(***************************************************************************)
\* createReport
CreateReport ==
    /\ page.mounted
    /\ page.results # NoResultsYet
    /\ dialog = NoDialog
    /\ dialog' = NewDialog(page.query, page.results)
    /\ UNCHANGED <<aggRecords, aggKind, aggOut, report, chartOut, page, view>>

DialogOnly == UNCHANGED <<aggRecords, aggKind, aggOut, report, chartOut, page, view>>

NameInputs == {"", "Sales"}

\* The options of a field select: the available fields, and no field.
FieldOptions(d) == {Str(d.availableFields[i].name) : i \in 1..Len(d.availableFields)}
                      \cup {Str("")}

\* The name input (t-model on state.name).
SetName ==
    /\ dialog.open
    /\ \E value \in NameInputs : dialog' = [dialog EXCEPT !.name = value]
    /\ DialogOnly

OnVisualizationTypeChanged ==
    /\ dialog.open
    /\ \E value \in VisualizationTypes : dialog' = VisualizationTypeChanged(dialog, value)
    /\ DialogOnly

OnDimensionFieldChanged ==
    /\ dialog.open
    /\ \E value \in FieldOptions(dialog) : dialog' = [dialog EXCEPT !.dimensionField = value]
    /\ DialogOnly

OnMeasureFieldChanged ==
    /\ dialog.open
    /\ \E value \in FieldOptions(dialog) : dialog' = MeasureFieldChanged(dialog, value)
    /\ DialogOnly

\* onAggregationTypeChanged, on one of the aggregation types offered.
OnAggregationTypeChanged ==
    /\ dialog.open
    /\ \E value \in ApplicableAggregationTypes(dialog) :
          dialog' = [dialog EXCEPT !.aggregationType = value]
    /\ DialogOnly

OnSeriesFieldChanged ==
    /\ dialog.open
    /\ \E value \in FieldOptions(dialog) : dialog' = [dialog EXCEPT !.seriesField = value]
    /\ DialogOnly

\* The stacked option of a bar chart (t-model on state.config.stacked).
SetStacked ==
    /\ dialog.open
    /\ dialog.visualizationType = "bar"
    /\ \E value \in {True, False} : dialog' = [dialog EXCEPT !.config.stacked = value]
    /\ DialogOnly

\* The cumulated option of a line chart (t-model on state.config.cumulated).
SetCumulated ==
    /\ dialog.open
    /\ dialog.visualizationType = "line"
    /\ \E value \in {True, False} : dialog' = [dialog EXCEPT !.config.cumulated = value]
    /\ DialogOnly

\* onConfirm, with saveReport as the caller's onConfirm.
OnConfirm ==
    /\ dialog.open
    /\ dialog' = Confirmed(dialog)
    /\ page' = IF HandsOver(dialog) THEN SaveReport(page, ReportBundle(dialog)) ELSE page
    /\ UNCHANGED <<aggRecords, aggKind, aggOut, report, chartOut, view>>

OnCancel ==
    /\ dialog.open
    /\ dialog' = [dialog EXCEPT !.open = FALSE]
    /\ DialogOnly

PageOnly == UNCHANGED <<aggRecords, aggKind, aggOut, report, chartOut, dialog, view>>

\* The answer to a create_report request arrives.
CreateReportResponse ==
    /\ page.mounted
    /\ page.createRequests > 0
    /\ \E answer \in CreateReportAnswers : page' = SaveReportAnswered(page, answer)
    /\ PageOnly

\* The answer to a get_reports request arrives.
GetReportsResponse ==
    /\ page.mounted
    /\ page.reportsRequests > 0
    /\ \E answer \in ListAnswers : page' = LoadReportsAnswered(page, answer)
    /\ PageOnly

SalesResults ==
    [EmptyShape EXCEPT !.records = RecArray(
        <<<<Entry("id", Num(1)), Entry("region", Str("A")), Entry("qty", Num(5)),
            Entry("partner_info", Str("x"))>>>>)]

AmountResults ==
    [EmptyShape EXCEPT !.records = RecArray(
        <<<<Entry("id", Num(1)), Entry("qty", Num(5)), Entry("amount", Num(20))>>>>)]

RegionResults ==
    [EmptyShape EXCEPT !.records = RecArray(
        <<<<Entry("id", Num(1)), Entry("region", Str("A"))>>>>)]

LoginResults ==
    [EmptyShape EXCEPT
        !.multi_model = TRUE,
        !.results = Results(
            <<BareModel,
              ModelResult(Str("res.users.log"), Str("Logins"),
                          RecArray(<<<<Entry("id", Num(1)),
                                       Entry("name", Str("Ann")),
                                       Entry("create_date", Str("2024-01-01 10:00:00"))>>>>),
                          NoDateAggregation)>>)]

\* The query and the results the dialog is opened on.
DialogInputs ==
    {<<"sales", SalesResults>>, <<"sales", AmountResults>>, <<"logins", LoginResults>>,
     <<"  ", RegionResults>>, <<"", RegionResults>>, <<"sales", EmptyShape>>}

UnusedOutside ==
    /\ view = NoView
    /\ AggUnused
    /\ report = NoReport
    /\ chartOut = ChartIdle

InitDialog ==
    /\ UnusedOutside
    /\ dialog = NoDialog
    /\ \E input \in DialogInputs :
          page = [IdlePage EXCEPT !.query = input[1], !.results = input[2]]

NextDialog ==
    \/ CreateReport
    \/ SetName
    \/ OnVisualizationTypeChanged
    \/ OnDimensionFieldChanged
    \/ OnMeasureFieldChanged
    \/ OnAggregationTypeChanged
    \/ OnSeriesFieldChanged
    \/ SetStacked
    \/ SetCumulated
    \/ OnConfirm
    \/ OnCancel
    \/ CreateReportResponse
    \/ GetReportsResponse

SpecDialog == InitDialog /\ [][NextDialog]_vars


(***************************************************************************)
(* The claims about the report dialog, under SpecDialog.                   *)
(***************************************************************************)
NumericOnlyAggregations == {"sum", "average", "min", "max"}

\* The dialog lists the field under this name as a number.
ListedAsNumber(name) ==
    \E i \in 1..Len(dialog.availableFields) :
        /\ Str(dialog.availableFields[i].name) = name
        /\ dialog.availableFields[i].type = "number"

MeasureChanges == dialog.open /\ dialog'.open /\ dialog'.measureField # dialog.measureField

\* C11: whenever the measure field changes to a field that is not numeric
\* while the aggregation is sum, average, min or max, the aggregation becomes
\* count; when the new field is numeric, or the aggregation is none or count,
\* the aggregation stays as it is.
C11_MeasureChangeAggregation ==
    [][MeasureChanges =>
          dialog'.aggregationType =
              IF dialog.aggregationType \in NumericOnlyAggregations
                 /\ ~ListedAsNumber(dialog'.measureField)
              THEN "count" ELSE dialog.aggregationType]_vars

\* The measure went from a number to a string and the aggregation is count;
\* the measure went from one number to another under max.
C11_Witness ==
    /\ dialog.open
    /\ \/ /\ page.results = SalesResults
          /\ dialog.measureField = Str("region")
          /\ dialog.aggregationType = "count"
       \/ /\ page.results = AmountResults
          /\ dialog.measureField = Str("amount")
          /\ dialog.aggregationType = "max"

TypeChanges ==
    dialog.open /\ dialog'.open /\ dialog'.visualizationType # dialog.visualizationType

\* C12: a change of the visualization type leaves the selected dimension,
\* measure and series fields as they were, hence so does every sequence of
\* such changes.
C12_TypeChangeKeepsFields ==
    [][TypeChanges =>
          /\ dialog'.dimensionField = dialog.dimensionField
          /\ dialog'.measureField = dialog.measureField
          /\ dialog'.seriesField = dialog.seriesField]_vars

\* Back on bar after line or pie (the config holds no cumulated flag and the
\* fields written by the change), with all three fields selected.
C12_Witness ==
    /\ dialog.open
    /\ dialog.visualizationType = "bar"
    /\ dialog.config.cumulated = Undefined
    /\ dialog.config.dimensionField = dialog.dimensionField
    /\ dialog.config.seriesField = dialog.seriesField
    /\ Truthy(dialog.dimensionField) /\ Truthy(dialog.measureField)
    /\ Truthy(dialog.seriesField)
    /\ dialog.seriesField # dialog.dimensionField

Blank(str) == \A i \in 1..Len(str) : CharAt(str, i) = " "
NotSelected(field) == field \in {Null, Undefined, Str("")}

\* What the claim lists as invalid.
InvalidInputs ==
    \/ Blank(dialog.name)
    \/ dialog.queryText = ""
    \/ NotSelected(dialog.dimensionField)
    \/ NotSelected(dialog.measureField)
    \/ /\ dialog.visualizationType = "bar"
       /\ dialog.config.stacked = True
       /\ NotSelected(dialog.seriesField)

\* C13: a confirm on invalid inputs hands nothing to the caller (saveReport
\* is not run: the page is as before), leaves the dialog open and sets a
\* validation error.
C13_InvalidBlocksConfirm ==
    [][OnConfirm /\ InvalidInputs =>
          /\ dialog'.handed = dialog.handed
          /\ page' = page
          /\ dialog'.open
          /\ dialog'.validationError # Null]_vars

\* A stacked bar chart without series field was confirmed and refused.
C13_Witness ==
    /\ dialog.open
    /\ dialog.visualizationType = "bar" /\ dialog.config.stacked = True
    /\ NotSelected(dialog.seriesField)
    /\ dialog.validationError = Str("Please select a series field for stacked bar chart")
    /\ dialog.handed = <<>>
    /\ page.saveOutcome = "none"

\* C14: when the caller's save has not succeeded (saveReport found fields
\* missing, create_report answered with an error, or the request failed) the
\* dialog is still open.
C14_OpenUntilAccepted ==
    page.mounted /\ dialog # NoDialog /\ page.saveOutcome \in {"missing", "error", "failed"}
        => dialog.open


(***************************************************************************)
(* SearchPage: searching (search_page.js lines 43-110, 193-197, 232-235).  *)
(***************************************************************************)
\* _displayError
DisplayError(pg, error) ==
    [pg EXCEPT !.error = IF error.t = "string" THEN error
                         ELSE Str("An error occurred while processing your search.")]

\* A plausible slip: a search is started whatever the loading flag says.
SearchUnguarded(pg) ==
    IF Trim(pg.query) = "" THEN pg
    ELSE [pg EXCEPT !.loading = TRUE, !.results = NoResultsYet, !.error = Null,
                    !.currentSearchSaved = FALSE,
                    !.searchRequests = Append(@, Trim(pg.query)),
                    !.searchedQuery = Trim(pg.query),
                    !.handled = [kind |-> "none"]]

\* A plausible slip: a new search leaves the error of the last one in place.
SearchKeepingError(pg) ==
    IF Trim(pg.query) = "" \/ pg.loading THEN pg
    ELSE [pg EXCEPT !.loading = TRUE, !.results = NoResultsYet,
                    !.currentSearchSaved = FALSE,
                    !.searchRequests = Append(@, Trim(pg.query)),
                    !.searchedQuery = Trim(pg.query),
                    !.handled = [kind |-> "none"]]

\* onSearch, up to the fetch.
Search(pg) ==
    IF Trim(pg.query) = "" \/ pg.loading THEN pg
    ELSE [pg EXCEPT !.loading = TRUE, !.results = NoResultsYet, !.error = Null,
                    !.currentSearchSaved = FALSE,
                    !.searchRequests = Append(@, Trim(pg.query)),
                    !.searchedQuery = Trim(pg.query),
                    !.handled = [kind |-> "none"]]

\* The body of an answer (response.json()): its error and its result.
NoError == [has |-> FALSE, dataMessage |-> Undefined, message |-> Undefined]
ErrorEnvelope(dataMessage, message) ==
    [has |-> TRUE, dataMessage |-> dataMessage, message |-> message]

\* data.result: nothing, or an object with its status, result and error
\* members and whatever else it holds (content).
NoResult == [has |-> FALSE]
NoContent == [kind |-> "none"]
ResultObject(status, result, error, content) ==
    [has |-> TRUE, status |-> status, result |-> result, error |-> error,
     content |-> content]
Payload(content) == ResultObject(Undefined, NoResult, Undefined, content)

SearchData(error, result) == [kind |-> "data", error |-> error, result |-> result]
SearchFailure == [kind |-> "failure"]

\* data.error.data?.message || data.error.message || "Error processing search"
ErrorMessageOf(error) ==
    IF Truthy(error.dataMessage) THEN error.dataMessage
    ELSE IF Truthy(error.message) THEN error.message
    ELSE Str("Error processing search")

\* A plausible slip: the wrapper of a successful answer is stored as it is.
ResultDataOfWrapper(result) == result

\* resultData (lines 94-99)
ResultDataOf(result) ==
    IF result.status = Str("success") /\ result.result.has THEN result.result
    ELSE result

\* onSearch, from the answer on (lines 81-109).
SearchAnswered(pg, i, answer) ==
    LET others == [j \in 1..(Len(pg.searchRequests) - 1) |->
                      pg.searchRequests[IF j < i THEN j ELSE j + 1]]
        done == [pg EXCEPT !.searchRequests = others, !.loading = FALSE,
                           !.handled = answer]
    IN  IF answer.kind = "failure"
        THEN DisplayError(done, Str("TypeError: Failed to fetch"))
        ELSE IF answer.error.has THEN DisplayError(done, ErrorMessageOf(answer.error))
        ELSE IF ~answer.result.has
             THEN DisplayError(done, Str("No valid response received from the server"))
        ELSE [done EXCEPT !.results = ResultDataOf(answer.result)]

\* loadFavorites, from the answer on (lines 171-190).
LoadFavoritesAnswered(pg, request, answer) ==
    [pg EXCEPT !.favoritesRequests = @ \ {request},
               !.favoritesLoading = FALSE,
               !.favorites = CASE answer = "error" -> pg.favorites
                               [] answer = "list" -> "fetched"
                               [] OTHER -> "empty",
               !.favoritesFrom = IF answer = "error" THEN pg.favoritesFrom ELSE request]

\* executeFavorite
ExecutedFavorite(pg, queryText) ==
    SetActiveTab(Search([pg EXCEPT !.query = queryText]), "search")


(***************************************************************************)
(* The search page on its own: the query box, the search button, the Enter *)
(* key, the favourites and the answers of the server.                      *)
(***************************************************************************)
SearchOnly == UNCHANGED <<aggRecords, aggKind, aggOut, report, chartOut, dialog, view>>

QueryInputs == {"", "  ", "users", " logins "}
FavoriteQueries == {"users", "partners"}
KeyInputs == {"Enter", "a"}

\* t-model on the query box
SetQuery ==
    /\ page.mounted
    /\ \E value \in QueryInputs : page' = [page EXCEPT !.query = value]
    /\ SearchOnly

\* onSearch (the search button)
OnSearch ==
    /\ page.mounted
    /\ page' = Search(page)
    /\ SearchOnly

\* onKeyup
OnKeyup ==
    /\ page.mounted
    /\ \E key \in KeyInputs : page' = IF key = "Enter" THEN Search(page) ELSE page
    /\ SearchOnly

\* executeFavorite (a click on a favourite of the list)
ExecuteFavorite ==
    /\ page.mounted
    /\ page.favorites = "fetched"
    /\ \E queryText \in FavoriteQueries : page' = ExecutedFavorite(page, queryText)
    /\ SearchOnly

UsersPayload ==
    [model |-> "res.users", count |-> 2, fields |-> <<"name", "login">>,
     records |-> <<[name |-> "Ann", login |-> "ann"], [name |-> "Bob", login |-> "bob"]>>]
CrossPayload ==
    [multi_model |-> TRUE, total_count |-> 1,
     results |-> <<[model |-> "sale.order", count |-> 1,
                    records |-> <<[name |-> "S1", partner_info |-> "Ann"]>>]>>]
EmptyPayload == [model |-> "res.users", count |-> 0, fields |-> <<>>, records |-> <<>>]
PayloadInputs == {UsersPayload, CrossPayload, EmptyPayload}

ErrorInputs ==
    {ErrorEnvelope(Str("Access denied"), Str("Odoo Server Error")),
     ErrorEnvelope(Undefined, Str("Bad request")),
     ErrorEnvelope(Undefined, Undefined),
     ErrorEnvelope(Undefined, Num(500))}

ResultInputs ==
    {Payload(content) : content \in PayloadInputs}
    \cup {ResultObject(Str("success"), Payload(content), Undefined, NoContent) :
            content \in PayloadInputs}
    \cup {ResultObject(Str("error"), NoResult, Str("Could not interpret the query"), NoContent),
          ResultObject(Str("success"), NoResult, Undefined, NoContent)}

SearchAnswers ==
    {SearchFailure}
    \cup {SearchData(error, NoResult) : error \in ErrorInputs}
    \cup {SearchData(NoError, NoResult)}
    \cup {SearchData(NoError, result) : result \in ResultInputs}
    \cup {SearchData(ErrorEnvelope(Undefined, Str("Bad request")), Payload(UsersPayload))}

\* The answer to a search arrives (the then / catch / finally of onSearch).
SearchResponse ==
    /\ page.mounted
    /\ \E i \in 1..Len(page.searchRequests) : \E answer \in SearchAnswers :
          page' = SearchAnswered(page, i, answer)
    /\ SearchOnly

\* The answer to get_favorites arrives.
GetFavoritesResponse ==
    /\ page.mounted
    /\ \E request \in page.favoritesRequests : \E answer \in ListAnswers :
          page' = LoadFavoritesAnswered(page, request, answer)
    /\ SearchOnly

InitPage ==
    /\ aggRecords = <<>> /\ aggKind = "none" /\ aggOut = AggIdle
    /\ report = NoReport /\ chartOut = ChartIdle
    /\ dialog = NoDialog /\ view = NoView
    /\ page = InitialPage

NextPage ==
    \/ SetQuery
    \/ OnSearch
    \/ OnKeyup
    \/ ExecuteFavorite
    \/ SearchResponse
    \/ GetFavoritesResponse

SpecPage == InitPage /\ [][NextPage]_vars

\* C15: at most one search is in flight; loading is true exactly while one
\* is (from the moment it is issued until its answer has been handled); and
\* onSearch, from the button or the Enter key, changes nothing while
\* loading is true.
SearchInFlight == Len(page.searchRequests)
C15_OneSearchInFlight ==
    /\ [](page.mounted => SearchInFlight <= 1 /\ (page.loading <=> SearchInFlight = 1))
    /\ [][(OnSearch \/ OnKeyup) /\ page.loading => page' = page]_vars

C15_Witness ==
    /\ page.mounted /\ page.loading /\ SearchInFlight = 1
    /\ page.activeTab = "search" /\ page.query = "partners"
    /\ page.searchRequests = <<"users">>

\* C16: once an answer that is an error envelope (a top-level error, or a
\* result whose status is "error") has been handled, the error of the page
\* is set and its results are still null.
IsErrorAnswer(answer) ==
    /\ answer.kind = "data"
    /\ \/ answer.error.has
       \/ answer.result.has /\ answer.result.status = Str("error")
C16_ErrorEnvelope ==
    page.mounted /\ IsErrorAnswer(page.handled)
        => page.error # Null /\ page.results = NoResultsYet

\* C17: once an answer that carries a payload, directly or wrapped as
\* {status: 'success', result: payload}, has been handled, the results of
\* the page are that payload, its error is null and loading is false.
IsPayload(result) == result.has /\ result.content # NoContent
PayloadOfAnswer(answer) ==
    IF IsPayload(answer.result) THEN answer.result ELSE answer.result.result
CarriesPayload(answer) ==
    /\ answer.kind = "data"
    /\ ~answer.error.has
    /\ answer.result.has
    /\ \/ IsPayload(answer.result)
       \/ /\ answer.result.status = Str("success")
          /\ IsPayload(answer.result.result)
C17_PayloadStored ==
    page.mounted /\ CarriesPayload(page.handled)
        => /\ page.results = PayloadOfAnswer(page.handled)
           /\ page.error = Null
           /\ ~page.loading

C17_Witness ==
    /\ page.mounted
    /\ page.handled = SearchData(NoError,
           ResultObject(Str("success"), Payload(CrossPayload), Undefined, NoContent))
    /\ page.results = Payload(CrossPayload)
    /\ ~page.loading


(***************************************************************************)
(* The order of the labels of a regular chart.                             *)
(***************************************************************************)
InputLabels == [i \in 1..Len(InputRecords) |-> RecordLabel(InputRecords[i])]

\* C18: the labels of the chart a chart definition yields on a chart that is
\* not stacked are the distinct dimension values in the order of their first
\* occurrence in the records, whatever the values are (integer-like strings
\* included).
C18_FirstOccurrenceOrder ==
    (ChartRan /\ RegularCase /\ ChartReturned) => OutLabels = Distinct(InputLabels)


(***************************************************************************)
(* The order of the rules of the builder.                                  *)
(***************************************************************************)
Outcome(result) == [status |-> result.kind, value |-> result.value]
InputType == report.visualization_type
InputParsedConfig == ParsedConfig(report)

\* What the rules after the chart definition make of the payload.
AfterChartDefinition ==
    OrElse(LegacyConfigRule(InputType, InputParsedConfig, InputShape),
    OrElse(AggregationRule(InputType, InputShape),
    OrElse(MultiModelRule(InputType, InputShape),
    OrElse(PlainRecordsRule(InputType, InputShape),
           Return(GetSampleData(InputType))))))

\* What the rules after the multi-model rule make of the payload.
AfterMultiModel ==
    OrElse(PlainRecordsRule(InputType, InputShape), Return(GetSampleData(InputType)))

NoPassThrough ==
    report.data.raw = "object" /\ ~(InputShape.labels.has /\ InputShape.datasets.has)

\* A chart definition that names no dimension field.
DefinitionWithoutDimension ==
    /\ NoPassThrough
    /\ InputDefinition.has
    /\ ~Truthy(InputDefinition.dimensionField)

\* A multi-model payload none of whose models has records (or a date
\* aggregation), which no rule before the multi-model rule takes, with
\* records of its own.
MultiModelWithoutRecords ==
    /\ NoPassThrough
    /\ ~InputDefinition.has
    /\ ~LegacyPairConfigured
    /\ ~InputShape.aggregation
    /\ InputShape.multi_model
    /\ InputShape.results.t = "array"
    /\ \A m \in 1..Len(InputModels) :
          ~HasRecords(InputModels[m].records) /\ ~InputModels[m].dateAggregation.has
    /\ HasRecords(InputShape.records)

\* C19: the rules are tried in order and a rule that yields nothing never
\* keeps the later rules from applying: a chart definition without dimension
\* field leaves the chart to the rules after it, and a multi-model payload
\* whose models have no records leaves it to the plain-records rule.
C19_LaterRulesApply ==
    ChartRan =>
        /\ DefinitionWithoutDimension => chartOut = Outcome(AfterChartDefinition)
        /\ MultiModelWithoutRecords => chartOut = Outcome(AfterMultiModel)


(***************************************************************************)
(* The legacy field selection of the config against the chart definition.  *)
(***************************************************************************)
\* The legacy rule is the one that decides: no labels and datasets, no chart
\* definition, the pair of fields in the config, and records to chart.
LegacyCase ==
    /\ NoPassThrough
    /\ ~InputDefinition.has
    /\ LegacyPairConfigured
    /\ InputConfig.measureField.t = "string"
    /\ ~ActiveRecords(InputShape).threw
    /\ Len(ActiveRecords(InputShape).items) > 0

\* The same payload carrying the fields of the config as a chart definition
\* with aggregation sum.
AsChartDefinition ==
    [InputShape EXCEPT !.chartDefinition =
        ChartDefinition(InputConfig.dimensionField, InputConfig.measureField,
                        Str("sum"), InputConfig.seriesField)]

\* C20: the chart built from the dimensionField / measureField of a legacy
\* config is the chart the chart-definition rule builds from the same
\* records and fields with aggregation sum: without stacking one label per
\* distinct dimension value with the sum of its group, with stacking the
\* same cross product.
C20_LegacyAsSum ==
    ChartRan /\ LegacyCase
        => chartOut = Outcome(ChartDefinitionRule(InputType, InputParsedConfig,
                                                  AsChartDefinition))


(***************************************************************************)
(* The stacked bar chart counts every record once.                         *)
(***************************************************************************)
RECURSIVE DatasetsTotal(_)
DatasetsTotal(datasets) ==
    IF datasets = <<>> THEN 0
    ELSE CellSum(datasets[1].data) + DatasetsTotal(Tail(datasets))

\* C29: in the stacked bar chart the labels are pairwise distinct, and every
\* record is counted in exactly one cell: with aggregation count the data
\* points of all datasets add up to the number of records, also when
\* dimension or series values are null, absent, or equal only under ==.
C29_StackedCountsOnce ==
    (ChartRan /\ StackedCase /\ ChartReturned) =>
        /\ PairwiseDistinct(OutLabels)
        /\ AggregationTypeOf(InputDefinition) = "count"
              => DatasetsTotal(OutDatasets) = Len(InputRecords)

\* The same two properties, one at a time.
StackedLabelsDistinct ==
    (ChartRan /\ StackedCase /\ ChartReturned) => PairwiseDistinct(OutLabels)

StackedCountIsTotal ==
    (ChartRan /\ StackedCase /\ ChartReturned
        /\ AggregationTypeOf(InputDefinition) = "count")
    => DatasetsTotal(OutDatasets) = Len(InputRecords)


(***************************************************************************)
(* The defaults of the dialog and the flags of its config.                 *)
(***************************************************************************)
\* The default measure as described: the first numeric field, else the first
\* field that is not the default dimension, else none.
DescribedDefaultMeasure(fields) ==
    LET numField == FirstOf(FieldsOfType(fields, "number"))
        alternateField == FirstOf(FieldsNotNamed(fields, {GetDefaultDimensionField(fields)}))
    IN  IF numField # 0 THEN Str(fields[numField].name)
        ELSE IF alternateField # 0 THEN Str(fields[alternateField].name)
        ELSE Null

\* C21: the measure field a new dialog starts with is the first numeric
\* field, else the first field whose name differs from the default dimension,
\* else null; it equals the default dimension only if that field is numeric.
C21_DefaultMeasure ==
    [][CreateReport =>
          /\ dialog'.measureField = DescribedDefaultMeasure(dialog'.availableFields)
          /\ dialog'.measureField = dialog'.dimensionField /\ dialog'.measureField # Null
                => \E i \in 1..Len(dialog'.availableFields) :
                      /\ Str(dialog'.availableFields[i].name) = dialog'.measureField
                      /\ dialog'.availableFields[i].type = "number"]_vars

\* C22: a change of the visualization type to bar from another type leaves
\* config.stacked false, one to line from another type leaves
\* config.cumulated false, and selecting the current type again keeps the
\* flag of that type.
C22_TypeChangeResetsFlags ==
    [][OnVisualizationTypeChanged =>
          /\ dialog'.visualizationType = "bar" =>
                dialog'.config.stacked =
                    IF dialog.visualizationType = "bar" THEN dialog.config.stacked
                    ELSE False
          /\ dialog'.visualizationType = "line" =>
                dialog'.config.cumulated =
                    IF dialog.visualizationType = "line" THEN dialog.config.cumulated
                    ELSE False]_vars

\* On line with the cumulated option set and no stacked flag left in the
\* config: bar has been left, and the flag of line was set afterwards.
C22_Witness ==
    /\ dialog.open
    /\ dialog.visualizationType = "line"
    /\ dialog.config.stacked = Undefined
    /\ dialog.config.cumulated = True
    /\ page.results = SalesResults


(***************************************************************************)
(* SearchPage: favourites and reports (search_page.js lines 112-230,       *)
(* 316-498).                                                               *)
(***************************************************************************)
\* saveCurrentSearch, up to the fetch.
SaveCurrentSearch(pg) ==
    IF pg.query = "" \/ pg.savingFavorite THEN pg
    ELSE [pg EXCEPT !.savingFavorite = TRUE, !.saveRequests = Append(@, pg.query)]

\* The answers to a mutating request: a top-level error, a result with
\* status "error", a result, or no answer at all.
MutationAnswers == {"error", "result_error", "done", "failure"}

\* A plausible slip: the saved query is appended to the list at hand.
SaveFavoriteAnsweredPatching(pg, answer) ==
    LET done == [pg EXCEPT !.saveRequests = Tail(@), !.savingFavorite = FALSE]
    IN  IF answer \in {"error", "failure"} THEN done
        ELSE [done EXCEPT !.currentSearchSaved = TRUE, !.favorites = "fetched",
                          !.savedQueries = IF answer = "done"
                                           THEN @ \cup {Head(pg.saveRequests)} ELSE @]

\* A plausible slip: the answer counts only for the search it was asked for.
SaveFavoriteAnsweredForItsQuery(pg, answer) ==
    LET done == [pg EXCEPT !.saveRequests = Tail(@), !.savingFavorite = FALSE]
    IN  IF answer # "done" THEN done
        ELSE LoadFavorites([done EXCEPT
                 !.currentSearchSaved = (Head(pg.saveRequests) = pg.searchedQuery),
                 !.savedQueries = @ \cup {Head(pg.saveRequests)}])

\* saveCurrentSearch, from the answer on (lines 135-152).  Whatever the
\* server answers without a top-level error counts as saved.
SaveFavoriteAnswered(pg, answer) ==
    LET done == [pg EXCEPT !.saveRequests = Tail(@), !.savingFavorite = FALSE]
    IN  IF answer \in {"error", "failure"} THEN done
        ELSE LoadFavorites([done EXCEPT
                 !.currentSearchSaved = TRUE,
                 !.savedQueries = IF answer = "done"
                                  THEN @ \cup {Head(pg.saveRequests)} ELSE @])

\* deleteFavorite, up to the fetch.
DeleteFavoriteAsked(pg) == [pg EXCEPT !.deleteFavoriteRequests = @ + 1]

\* deleteFavorite, from the answer on (lines 216-229).
DeleteFavoriteAnswered(pg, answer) ==
    LET done == [pg EXCEPT !.deleteFavoriteRequests = @ - 1]
    IN  IF answer \in {"error", "failure"} THEN done ELSE LoadFavorites(done)

\* deleteReport, up to the fetch.
DeleteReportAsked(pg) == [pg EXCEPT !.deleteReportRequests = @ + 1]

\* deleteReport(reportId), from the answer on (lines 471-489).
DeleteReportAnswered(pg, reportId, answer) ==
    LET done == [pg EXCEPT !.deleteReportRequests = @ - 1]
        loading == LoadReports(done)
    IN  IF answer \in {"error", "failure"} THEN done
        ELSE IF Truthy(loading.selectedReport) /\ loading.selectedReport = reportId
             THEN [loading EXCEPT !.selectedReport = Null]
        ELSE loading

(***************************************************************************)
(* The page with its lists: the query box, searches, the three tabs, the   *)
(* favourites and the reports, and the answers of the server in any order. *)
(***************************************************************************)
ListQueries == {"", "users", "partners"}
ReportIds == {Num(1)}
SettledAnswers == {SearchFailure, SearchData(NoError, Payload(UsersPayload))}
TabInputs == {"search", "reports", "saved"}
SavedBundle == [name |-> "Sales", query_text |-> "users"]

\* The get_favorites requests that are or may yet be issued.
FavoriteLoadsAhead(pg) ==
    pg.favoritesIssued + Len(pg.saveRequests) + pg.deleteFavoriteRequests
ReportLoadsAhead(pg) == pg.reportsIssued + pg.createRequests + pg.deleteReportRequests

TypeQuery ==
    /\ page.mounted
    /\ \E value \in ListQueries : page' = [page EXCEPT !.query = value]
    /\ SearchOnly

SearchSettled ==
    /\ page.mounted
    /\ \E i \in 1..Len(page.searchRequests) : \E answer \in SettledAnswers :
          page' = SearchAnswered(page, i, answer)
    /\ SearchOnly

\* A click on one of the tabs.
SwitchTab ==
    /\ page.mounted
    /\ \E tab \in TabInputs :
          /\ tab = "saved" => FavoriteLoadsAhead(page) < MaxLoads
          /\ tab = "reports" => ReportLoadsAhead(page) < MaxLoads
          /\ page' = SetActiveTab(page, tab)
    /\ SearchOnly

\* saveCurrentSearch (the save button of the search tab)
OnSaveCurrentSearch ==
    /\ page.mounted
    /\ FavoriteLoadsAhead(page) < MaxLoads
    /\ page' = SaveCurrentSearch(page)
    /\ SearchOnly

\* The answer to save_favorite arrives.
SaveFavoriteResponse ==
    /\ page.mounted
    /\ page.saveRequests # <<>>
    /\ \E answer \in MutationAnswers : page' = SaveFavoriteAnswered(page, answer)
    /\ SearchOnly

\* deleteFavorite (a click in the list of the saved tab)
DeleteFavorite ==
    /\ page.mounted
    /\ page.activeTab = "saved" /\ page.favorites = "fetched"
    /\ FavoriteLoadsAhead(page) < MaxLoads
    /\ page' = DeleteFavoriteAsked(page)
    /\ SearchOnly

\* The answer to delete_favorite arrives.
DeleteFavoriteResponse ==
    /\ page.mounted
    /\ page.deleteFavoriteRequests > 0
    /\ \E answer \in MutationAnswers : page' = DeleteFavoriteAnswered(page, answer)
    /\ SearchOnly

\* selectReport (a click on a report of the list)
SelectReport ==
    /\ page.mounted
    /\ page.activeTab = "reports" /\ page.reports = "fetched"
    /\ \E reportId \in ReportIds : page' = [page EXCEPT !.selectedReport = reportId]
    /\ SearchOnly

\* deleteReport (a click in the list of the reports tab)
DeleteReport ==
    /\ page.mounted
    /\ page.activeTab = "reports" /\ page.reports = "fetched"
    /\ ReportLoadsAhead(page) < MaxLoads
    /\ page' = DeleteReportAsked(page)
    /\ SearchOnly

\* The answer to delete_report arrives.
DeleteReportResponse ==
    /\ page.mounted
    /\ page.deleteReportRequests > 0
    /\ \E reportId \in ReportIds : \E answer \in MutationAnswers :
          page' = DeleteReportAnswered(page, reportId, answer)
    /\ SearchOnly

\* saveReport, called by the dialog opened on the results.
OnSaveReport ==
    /\ page.mounted
    /\ page.results # NoResultsYet
    /\ ReportLoadsAhead(page) < MaxLoads
    /\ page' = SaveReport(page, SavedBundle)
    /\ SearchOnly

\* The page after a first search has been answered, its first get_favorites
\* request still in flight.
SearchedPage ==
    SearchAnswered(Search([InitialPage EXCEPT !.query = "users"]), 1,
                   SearchData(NoError, Payload(UsersPayload)))

InitLists ==
    /\ AggUnused /\ report = NoReport /\ chartOut = ChartIdle
    /\ dialog = NoDialog /\ view = NoView
    /\ page = SearchedPage

NextLists ==
    \/ SwitchTab
    \/ OnSaveCurrentSearch
    \/ SaveFavoriteResponse
    \/ DeleteFavorite
    \/ DeleteFavoriteResponse
    \/ GetFavoritesResponse
    \/ SelectReport
    \/ DeleteReport
    \/ DeleteReportResponse
    \/ OnSaveReport
    \/ CreateReportResponse
    \/ GetReportsResponse

SpecLists == InitLists /\ [][NextLists]_vars

(***************************************************************************)
(* The page with its searches and its favourites only.                     *)
(***************************************************************************)
\* A click on the search tab or on the saved tab.
SwitchFavoritesTab ==
    /\ page.mounted
    /\ \E tab \in {"search", "saved"} :
          /\ tab = "saved" => FavoriteLoadsAhead(page) < MaxLoads
          /\ page' = SetActiveTab(page, tab)
    /\ SearchOnly

InitFavorites == InitPage

NextFavorites ==
    \/ TypeQuery
    \/ OnSearch
    \/ SearchSettled
    \/ SwitchFavoritesTab
    \/ OnSaveCurrentSearch
    \/ SaveFavoriteResponse
    \/ DeleteFavorite
    \/ DeleteFavoriteResponse
    \/ GetFavoritesResponse
    \/ ExecuteFavorite

SpecFavorites == InitFavorites /\ [][NextFavorites]_vars
(***************************************************************************)
(* Refetching the lists.                                                   *)
(***************************************************************************)
\* A mutating request is answered with success.
FavoriteSaved ==
    page.saveRequests # <<>> /\ page' = SaveFavoriteAnswered(page, "done")
FavoriteDeleted ==
    page.deleteFavoriteRequests > 0 /\ page' = DeleteFavoriteAnswered(page, "done")
ReportCreated ==
    page.createRequests > 0 /\ page' = SaveReportAnswered(page, "created")
ReportDeleted ==
    /\ page.deleteReportRequests > 0
    /\ \E reportId \in ReportIds : page' = DeleteReportAnswered(page, reportId, "done")

\* The step issues a get_favorites / a get_reports request.
FavoritesRequested ==
    /\ page'.favoritesIssued = page.favoritesIssued + 1
    /\ page'.favoritesRequests = page.favoritesRequests \cup {page'.favoritesIssued}
    /\ page'.favoritesLoading
ReportsRequested ==
    /\ page'.reportsIssued = page.reportsIssued + 1
    /\ page'.reportsRequests = page.reportsRequests + 1
    /\ page'.reportsLoading

\* C23: a save_favorite or delete_favorite answered with success issues a
\* get_favorites request, a create_report or delete_report answered with
\* success issues a get_reports request, and state.favorites and
\* state.reports change only on the answer to get_favorites / get_reports.
C23_RefetchAfterMutation ==
    [][/\ FavoriteSaved \/ FavoriteDeleted => FavoritesRequested
       /\ ReportCreated \/ ReportDeleted => ReportsRequested
       /\ (page'.favorites # page.favorites \/ page'.favoritesFrom # page.favoritesFrom)
             => GetFavoritesResponse
       /\ page'.reports # page.reports => GetReportsResponse]_vars

\* A favourite has been saved and a report created, and the requests that
\* refetch both lists are in flight.
C23_Witness ==
    /\ page.mounted
    /\ page.savedQueries = {"users"} /\ page.currentSearchSaved
    /\ page.favoritesIssued = 2 /\ 2 \in page.favoritesRequests
    /\ page.saveOutcome = "created"
    /\ page.reportsIssued = 1 /\ page.reportsRequests = 1
    /\ page.activeTab = "reports"

(***************************************************************************)
(* Answers that arrive late.                                               *)
(***************************************************************************)
\* C26: currentSearchSaved is true only if the query of the search started
\* last has been saved as a favourite; an answer to save_favorite that
\* arrives after a newer search was started does not mark that search saved.
C26_SavedIsCurrentSearch ==
    page.mounted /\ page.currentSearchSaved /\ page.searchedQuery # ""
        => page.searchedQuery \in page.savedQueries

\* C27: an answer to get_favorites never replaces the answer to a request
\* issued after its own, so that once all requests are answered
\* state.favorites holds the answer to the latest one; and favoritesLoading
\* is false only when no get_favorites request is in flight.
C27_LatestFavoritesWin ==
    /\ [](page.mounted /\ ~page.favoritesLoading => page.favoritesRequests = {})
    /\ [][GetFavoritesResponse => page'.favoritesFrom >= page.favoritesFrom]_vars

(***************************************************************************)
(* Running a favourite; results and error of a search.                     *)
(***************************************************************************)
\* C28: executeFavorite(q) with a non-blank q, clicked on the saved tab in
\* any state (also while a search is loading), issues a search request for
\* q and shows the search tab, so that the results to come are those of the
\* query shown in state.query.
C28_FavoriteIsSearched ==
    [][ExecuteFavorite /\ page.activeTab = "saved" =>
          /\ page'.activeTab = "search"
          /\ page'.searchRequests # <<>>
          /\ page'.searchRequests[Len(page'.searchRequests)] = Trim(page'.query)]_vars

\* The search page with every search request answered in the end.
SpecPageFair == SpecPage /\ WF_vars(SearchResponse)

StartsSearch == page'.searchRequests # page.searchRequests /\ ~SearchResponse

CellPlus(a, b) ==
    IF a.nan \/ b.nan THEN NumCell(NaN)
    ELSE NumCell(Rat(a.num * b.den + b.num * a.den, a.den * b.den))

\* dataset.data.map(value => { sum += value; return sum; }) (lines 967-970),
\* on data that are numbers.
RECURSIVE RunningSums(_, _)
RunningSums(sum, data) ==
    IF data = <<>> THEN <<>>
    ELSE <<CellPlus(sum, Head(data))>> \o RunningSums(CellPlus(sum, Head(data)), Tail(data))

\* The loop over the datasets (lines 964-972).
Cumulate(datasets) ==
    [i \in 1..Len(datasets) |->
        [datasets[i] EXCEPT !.data = RunningSums(IntCell(0), datasets[i].data)]]

IsCumulated(rep) == rep.visualization_type = "line" /\ ParsedConfig(rep).cumulated

\* getChartConfig: the data of the configuration it returns, or the
\* exception of getChartData.
GetChartConfig(rep) ==
    LET out == GetChartData(rep)
    IN  IF out.kind # "return" THEN out
        ELSE IF IsCumulated(rep)
        THEN Return([out.value EXCEPT !.datasets.items = Cumulate(@)])
        ELSE out

\* getChartData hands out the object stored in the report itself: the
\* payload has labels and datasets and is held as an object, not as JSON
\* text that is parsed anew by every call (lines 138-162).
HandsOutStored(rep, isText) ==
    /\ ~isText
    /\ rep.data.raw = "object"
    /\ PassThroughRule(SearchResults(rep.data)).kind = "return"

\* A plausible slip: the datasets are copied before they are cumulated.
StoredAfterConfigOfCopy(rep, isText, config) == rep

\* props.report after getChartConfig has returned config: dataset.data is
\* assigned on the datasets, which are those of the report when it hands
\* out its own.
StoredAfterConfig(rep, isText, config) ==
    IF config.kind = "return" /\ HandsOutStored(rep, isText) /\ IsCumulated(rep)
    THEN IF rep.data.graphData.has THEN [rep EXCEPT !.data.graphData.shape = config.value]
         ELSE IF rep.data.data.has THEN [rep EXCEPT !.data.data.shape = config.value]
         ELSE [rep EXCEPT !.data.own = config.value]
    ELSE rep

NoConfig == [kind |-> "none"]

\* The component as constructed (lines 23-30), onWillStart pending.
NewView(isText) ==
    [phase |-> "starting", loading |-> TRUE, error |-> Null,
     chart |-> 0,            \* this.chart: the number of the instance, 0 for null
     live |-> {},            \* the instances created and not destroyed
     created |-> 0,          \* instances created so far
     dataIsText |-> isText,  \* props.report.data is JSON text
     configured |-> NoConfig]  \* what getChartConfig returned last

\* this.chart.destroy(); this.chart = null
Destroyed(v) ==
    IF v.chart # 0 THEN [v EXCEPT !.live = @ \ {v.chart}, !.chart = 0] ELSE v

\* A plausible slip: the new chart is created over the old one.
RenderedWithoutCleanup(v, config, canvas, chartDefined, constructs) ==
    LET configured == [v EXCEPT !.configured = config]
    IN  IF v.loading \/ v.error # Null THEN v
        ELSE IF ~canvas THEN [v EXCEPT !.error = Str("Canvas element not available")]
        ELSE IF config.kind # "return" \/ ~constructs
        THEN [configured EXCEPT !.error = Str("Error rendering chart")]
        ELSE IF ~chartDefined
        THEN [configured EXCEPT !.error = Str("Chart.js library not available")]
        ELSE [configured EXCEPT !.chart = v.created + 1, !.created = @ + 1,
                                !.live = @ \cup {v.created + 1}]

\* renderChart: the component afterwards.  config: what getChartConfig
\* returns or raises; canvas: chartRef.el is there; chartDefined: Chart is
\* defined; constructs: new Chart(...) returns.
Rendered(v, config, canvas, chartDefined, constructs) ==
    LET cleaned == Destroyed(v)
        configured == [cleaned EXCEPT !.configured = config]
    IN  IF v.loading \/ v.error # Null THEN v
        ELSE IF ~canvas THEN [cleaned EXCEPT !.error = Str("Canvas element not available")]
        ELSE IF config.kind # "return"
        THEN [configured EXCEPT !.error = Str("Error rendering chart")]
        ELSE IF ~chartDefined
        THEN [configured EXCEPT !.error = Str("Chart.js library not available")]
        ELSE IF ~constructs
        THEN [configured EXCEPT !.error = Str("Error rendering chart")]
        ELSE [configured EXCEPT !.chart = v.created + 1, !.created = @ + 1,
                                !.live = @ \cup {v.created + 1}]

\* renderChart: props.report afterwards.
ReportRendered(v, rep, config, canvas) ==
    IF v.loading \/ v.error # Null \/ ~canvas THEN rep
    ELSE StoredAfterConfig(rep, v.dataIsText, config)

ViewOnly == UNCHANGED <<aggRecords, aggKind, aggOut, chartOut, dialog, page>>

\* onWillStart: the chart library loads, or fails to.
WillStart ==
    /\ view.phase = "starting"
    /\ \E loaded \in BOOLEAN :
          view' = [view EXCEPT !.phase = "ready", !.loading = FALSE,
                               !.error = IF loaded THEN Null
                                         ELSE Str("Failed to load chart library")]
    /\ UNCHANGED report
    /\ ViewOnly

\* onMounted and onPatched (the component has rendered again): renderChart.
RenderChart ==
    /\ \/ view.phase = "ready"
       \/ view.phase = "mounted" /\ view.created < MaxRenders
    /\ LET config == GetChartConfig(report)
       IN  \E canvas, chartDefined, constructs \in BOOLEAN :
              /\ view' = [Rendered(view, config, canvas, chartDefined, constructs)
                             EXCEPT !.phase = "mounted"]
              /\ report' = ReportRendered(view, report, config, canvas)
    /\ ViewOnly

\* onWillUnmount
WillUnmount ==
    /\ view.phase = "mounted"
    /\ view' = [Destroyed(view) EXCEPT !.phase = "unmounted"]
    /\ UNCHANGED report
    /\ ViewOnly

GraphConfig(cumulated) == ReportConfig([EmptyConfig EXCEPT !.cumulated = cumulated])

ViewReportInputs ==
    {Report(viz, GraphConfig(cumulated), data) :
        viz \in {"line", "bar"},
        cumulated \in BOOLEAN,
        data \in {Direct(ChartData(GraphLabels, GraphDatasets)),
                  ReportData(EmptyShape, Nested(ChartData(GraphLabels, GraphDatasets)),
                             NotNested),
                  Direct([EmptyShape EXCEPT !.records = RecArray(PlainRecords)]),
                  Direct(ChartDefinitionShape(RepeatedRecords,
                             ChartDefinition(Str("region"), Str("qty"), Str("sum"),
                                             Undefined))),
                  Direct(ChartDefinitionShape(RepeatedRecords,
                             ChartDefinition(Str("region"), Undefined, Undefined,
                                             Undefined))),
                  NoReportData("absent")}}

InitView ==
    /\ AggUnused /\ chartOut = ChartIdle
    /\ dialog = NoDialog /\ page = NoPage
    /\ report \in ViewReportInputs
    /\ \E isText \in BOOLEAN : view = NewView(isText)

NextView ==
    \/ WillStart
    \/ RenderChart
    \/ WillUnmount

SpecView == InitView /\ [][NextView]_vars

\* C24: at most one chart instance is live at any time, and it is the one
\* the component holds, so that the one before was destroyed before it was
\* created; none is live once the component is unmounted.
C24_OneLiveChart ==
    view # NoView =>
        /\ Cardinality(view.live) <= 1
        /\ view.live = IF view.chart = 0 THEN {} ELSE {view.chart}
        /\ view.phase = "unmounted" => view.live = {}

\* The third instance is live and the two before it are not.
C24_Witness ==
    /\ view # NoView /\ view.phase = "mounted"
    /\ view.created = 3 /\ view.live = {3} /\ view.chart = 3

\* C25: rendering a report again without a change of the report yields the
\* chart data it yielded before and leaves the data stored in the report as
\* they were, also for a line report with cumulated set whose data are
\* labels and datasets passed through as they are.
C25_RenderIdempotent ==
    [][RenderChart =>
          /\ report' = report
          /\ view.configured # NoConfig => view'.configured = view.configured]_vars

====
